---- MODULE Spec2Model ----
(***************************************************************************)
(* AuraBot: the conversation store (ChatManager), the tool lifecycle and   *)
(* the two send pipelines (router variant of js/app.js, inline-marker      *)
(* variant of the later app.js), modelled from the JavaScript sources.     *)
(***************************************************************************)
EXTENDS Integers, Sequences, FiniteSets, TLC

VARIABLES chats, activeChatId, storage, clock, last, doneTrace, moodTrace,
          variant, turn, pending, ops, prompt, extraction, breathing

vars == <<chats, activeChatId, storage, clock, last, doneTrace, moodTrace,
          variant, turn, pending, ops, prompt, extraction, breathing>>

\* the variables of the conversation store and of its observers
store == <<chats, activeChatId, storage, clock, last, doneTrace, moodTrace>>

(***************************************************************************)
(* Bounds of the model                                                     *)
(***************************************************************************)
MaxClock == 3
MaxItems == 2
MaxTags == 2
MaxPending == 1
LifeOps == 2
ToolOps == 4
TurnOps == 3
MaxDone == 21
MaxMoods == 11
MemOps == 4
MaxTopK == 3
MaxDirectives == 2
MaxFacts == 2
MaxTurns == 2
MaxCoordinate == 2
OwnerTurns == 1
FrameOps == 2
BreathStarts == 3
MaxArgument == 3

(***************************************************************************)
(* Program constants                                                       *)
(***************************************************************************)
MaxCompletedTasks == 20
Loops == 3
MaxMoodHistory == 10

(***************************************************************************)
(* Values                                                                  *)
(***************************************************************************)
\* JavaScript null for the active chat id (Date.now() is never 0)
NULL == 0

\* JavaScript null as a JSON value (a failed synthesis, a missing payload)
NullJson == [null |-> TRUE]

\* JavaScript undefined as the value of an expression
Undefined == [undefined |-> TRUE]

ToolKinds == {"checklist", "mood_tracker", "breathing_exercise", "affirmation_card"}

Texts == <<"a", "b", "c", "d">>

Moods == {"Happy", "Sad"}

Min(a, b) == IF a < b THEN a ELSE b

Max(a, b) == IF a > b THEN a ELSE b

\* the chat object literal of createNewChat
NewChat(id) ==
    [id |-> id, title |-> <<"New Chat">>, history |-> <<>>, memories |-> <<>>,
     tools |-> [k \in {} |-> <<>>], completed_tasks |-> <<>>]

\* this.state as one document
State(c, a) == [chats |-> c, activeChatId |-> a]

\* JSON.stringify over an array: an undefined element is written as null
StringifiedArray(arr) ==
    [i \in 1..Len(arr) |-> IF arr[i] = Undefined THEN NullJson ELSE arr[i]]

\* JSON.stringify over a message: a property whose value is undefined is left out
StringifiedMessage(m) ==
    IF m.content = Undefined THEN [role |-> m.role] ELSE m

\* JSON.parse(JSON.stringify(state)): the document loadState reads back after
\* saveState wrote the state st
Stringified(st) ==
    [chats |->
        [id \in DOMAIN st.chats |->
            [st.chats[id] EXCEPT
                !.history = [i \in 1..Len(@) |-> StringifiedMessage(@[i])],
                !.tools = [k \in DOMAIN @ |-> StringifiedArray(@[k])]]],
     activeChatId |-> st.activeChatId]

\* Array.prototype.sort((a, b) => b - a) over the keys of the chats object
RECURSIVE SortDesc(_)
SortDesc(S) ==
    IF S = {} THEN <<>>
    ELSE LET m == CHOOSE x \in S : \A y \in S : y <= x
         IN  <<m>> \o SortDesc(S \ {m})

\* Array.prototype.splice(start, 1): the relative start index
SpliceStart(len, idx) == IF idx < 0 THEN Max(len + idx, 0) ELSE Min(idx, len)

\* the array after removing the element at 0-based position k (k < Len)
RemoveAt(s, k) == [i \in 1..(Len(s) - 1) |-> IF i <= k THEN s[i] ELSE s[i + 1]]

\* push with the entry that does not fit dropped: the newest goes, not the oldest
PushCappedNewest(s, x, n) == IF Len(s) + 1 > n THEN s ELSE Append(s, x)

\* push with no cap
PushUncapped(s, x, n) == Append(s, x)

\* push followed by `if (length > n) shift()`
PushCapped(s, x, n) ==
    LET t == Append(s, x) IN IF Len(t) > n THEN Tail(t) ELSE t

\* the record of the last call: its name, what it returned, whether it threw
Call(op, ret, threw) ==
    [op |-> op, ret |-> ret, threw |-> threw, arg |-> 0, idx |-> 0, was |-> 0]

\* the record of a call on a conversation id: the id given, and the active id
\* the call found
CallOn(op, arg, was) ==
    [op |-> op, ret |-> Undefined, threw |-> FALSE, arg |-> arg, idx |-> 0, was |-> was]

\* the record of a call on a checklist item: the tool id and the index given
CallAt(op, toolId, itemIndex, ret, threw) ==
    [op |-> op, ret |-> ret, threw |-> threw, arg |-> toolId, idx |-> itemIndex, was |-> 0]

\* a message content that is a plain string
TextContent(s) == [text |-> s]

\* the send pipeline: no turn in flight; chat is the conversation the turn's
\* user message was stored in
Idle == [pc |-> "idle", tags |-> <<>>, chat |-> NULL]

NoCall == Call("init", Undefined, FALSE)

\* the breathing exercises of the page: breathInterval is the exercise whose
\* interval timer is set, and each start button has the state of the closure
\* of its last click (loops, the phase the timers are at), the cycles begun
\* and the follow-ups issued since that click, and its disabled flag
NoRun == [loops |-> 0, phase |-> "idle", cycles |-> 0, followUps |-> 0,
          disabled |-> FALSE]

NoBreathing == [breathInterval |-> NULL, runs |-> [e \in {} |-> NoRun]]

\* no reply request has been made yet
NoPrompt == [followUp |-> "init", notes |-> 0, user |-> FALSE]

(***************************************************************************)
(* ChatManager                                                             *)
(***************************************************************************)
\* the state after createNewChat() on chats c at clock reading t
CreatedChats(c, t) == [x \in DOMAIN c \cup {t} |-> IF x = t THEN NewChat(t) ELSE c[x]]

InitStore ==
    /\ clock = 1
    /\ chats = CreatedChats([x \in {} |-> NewChat(x)], 1)
    /\ activeChatId = 1
    /\ storage = State(chats, activeChatId)
    /\ last = NoCall
    /\ doneTrace = [x \in {1} |-> <<>>]
    /\ moodTrace = [x \in {1} |-> <<>>]
    /\ turn = Idle
    /\ pending = 0
    /\ ops = 0
    /\ prompt = NoPrompt
    /\ breathing = NoBreathing
    /\ extraction = <<>>

\* the store as shipped with the marker build
Init == InitStore /\ variant = "marker"

\* Date.now() advances between two handlers
Tick ==
    /\ clock < MaxClock
    /\ clock' = clock + 1
    /\ UNCHANGED <<chats, activeChatId, storage, last, doneTrace, moodTrace>>

CreateNewChat ==
    /\ chats' = CreatedChats(chats, clock)
    /\ activeChatId' = clock
    /\ storage' = State(chats', activeChatId')
    /\ last' = CallOn("createNewChat", clock, activeChatId)
    /\ doneTrace' = [x \in DOMAIN chats' |-> IF x = clock THEN <<>> ELSE doneTrace[x]]
    /\ moodTrace' = [x \in DOMAIN chats' |-> IF x = clock THEN <<>> ELSE moodTrace[x]]
    /\ UNCHANGED clock

SetActiveChat(chatId) ==
    /\ IF chatId \in DOMAIN chats
       THEN /\ activeChatId' = chatId
            /\ storage' = State(chats, chatId)
       ELSE UNCHANGED <<activeChatId, storage>>
    /\ last' = CallOn("setActiveChat", chatId, activeChatId)
    /\ UNCHANGED <<chats, clock, doneTrace, moodTrace>>

\* the successor with the comparator reversed, (a, b) => a - b
SuccessorOldest(c) ==
    LET chatIds == SortDesc(DOMAIN c)
    IN  IF Len(chatIds) > 0 THEN chatIds[Len(chatIds)] ELSE NULL

\* the active id deleteChat selects once chatId is gone from the chats c
Successor(c) ==
    LET chatIds == SortDesc(DOMAIN c)
    IN  IF Len(chatIds) > 0 THEN chatIds[1] ELSE NULL

\* a conversation created by every construction, whatever was loaded
HealedAlways(c, a, t) == State(CreatedChats(c, t), t)

\* the state left as it is, no conversation created for a null active id
NotHealed(c, a, t) == State(c, a)

\* `if (!this.state.activeChatId) this.createNewChat()` at clock reading t
Healed(c, a, t) == IF a = NULL THEN State(CreatedChats(c, t), t) ELSE State(c, a)

DeleteChat(chatId) ==
    /\ IF chatId \in DOMAIN chats
       THEN LET rest == [x \in DOMAIN chats \ {chatId} |-> chats[x]]
                st == IF activeChatId = chatId
                      THEN Healed(rest, Successor(rest), clock)
                      ELSE State(rest, activeChatId)
            IN  /\ chats' = st.chats
                /\ activeChatId' = st.activeChatId
                /\ storage' = st
                /\ doneTrace' = [x \in DOMAIN chats' |->
                                    IF x \in DOMAIN rest THEN doneTrace[x] ELSE <<>>]
                /\ moodTrace' = [x \in DOMAIN chats' |->
                                    IF x \in DOMAIN rest THEN moodTrace[x] ELSE <<>>]
       ELSE UNCHANGED <<chats, activeChatId, storage, doneTrace, moodTrace>>
    /\ last' = CallOn("deleteChat", chatId, activeChatId)
    /\ UNCHANGED clock

\* the message pushed onto the history of every conversation
MessageAddedToAll(c, a, role, content) ==
    [x \in DOMAIN c |->
        [c[x] EXCEPT !.history = Append(@, [role |-> role, content |-> content])]]

\* the message put in front of the history, unshift for push
MessagePrepended(c, a, role, content) ==
    IF a # NULL
    THEN [c EXCEPT ![a].history = <<[role |-> role, content |-> content]>> \o @]
    ELSE c

\* the chats after addMessageToActiveChat(role, content) with active id a
MessageAdded(c, a, role, content) ==
    IF a # NULL
    THEN LET chat == c[a]
             history == Append(chat.history, [role |-> role, content |-> content])
             title == IF Len(history) = 1 /\ role = "user"
                      THEN <<content.text, "...">>
                      ELSE chat.title
         IN  [c EXCEPT ![a] = [chat EXCEPT !.history = history, !.title = title]]
    ELSE c

AddMessageToActiveChat(role, content) ==
    /\ chats' = MessageAdded(chats, activeChatId, role, content)
    /\ storage' = IF activeChatId # NULL THEN State(chats', activeChatId) ELSE storage
    /\ last' = Call("addMessageToActiveChat", Undefined, FALSE)
    /\ UNCHANGED <<activeChatId, clock, doneTrace, moodTrace>>

\* activeChat.tools[toolName], an absent key read as the empty array it is replaced by
ToolArray(chat, toolName) ==
    IF toolName \in DOMAIN chat.tools THEN chat.tools[toolName] ELSE <<>>

\* the tools object with the array of one kind assigned
WithToolArray(tools, toolName, arr) ==
    [k \in DOMAIN tools \cup {toolName} |-> IF k = toolName THEN arr ELSE tools[k]]

\* the tool of a kind replaced by the new one, as before the arrays of tools
ToolReplaced(c, a, toolName, toolData) ==
    IF a # NULL /\ a \in DOMAIN c
    THEN [c EXCEPT ![a].tools = WithToolArray(c[a].tools, toolName, <<toolData>>)]
    ELSE c

\* the chats after addOrUpdateToolInActiveChat(toolName, toolData) with active id a
ToolAdded(c, a, toolName, toolData) ==
    IF a # NULL /\ a \in DOMAIN c
    THEN LET arr == Append(ToolArray(c[a], toolName), toolData)
         IN  [c EXCEPT ![a].tools = WithToolArray(c[a].tools, toolName, arr)]
    ELSE c

AddOrUpdateToolInActiveChat(toolName, toolData) ==
    /\ chats' = ToolAdded(chats, activeChatId, toolName, toolData)
    /\ storage' = IF activeChatId # NULL /\ activeChatId \in DOMAIN chats
                  THEN State(chats', activeChatId) ELSE storage
    /\ last' = Call("addOrUpdateToolInActiveChat", Undefined, FALSE)
    /\ UNCHANGED <<activeChatId, clock, doneTrace, moodTrace>>

\* the mood logged to the tracker stored last, not to the first
LogMoodToLastTracker(mood) ==
    LET arr == IF activeChatId \in DOMAIN chats
               THEN ToolArray(chats[activeChatId], "mood_tracker") ELSE <<>>
        n == Len(arr)
    IN  IF n = 0 \/ arr[n] = NullJson
        THEN /\ last' = Call("logMoodToTracker", Undefined, FALSE)
             /\ UNCHANGED <<chats, activeChatId, storage, clock, doneTrace, moodTrace>>
        ELSE LET old == IF "history" \in DOMAIN arr[n] THEN arr[n].history ELSE <<>>
                 entry == [mood |-> mood, timestamp |-> clock]
                 tracker == [f \in DOMAIN arr[n] \cup {"history"} |->
                                IF f = "history"
                                THEN PushCapped(old, entry, MaxMoodHistory)
                                ELSE arr[n][f]]
             IN  /\ chats' = [chats EXCEPT
                        ![activeChatId].tools["mood_tracker"][n] = tracker]
                 /\ storage' = State(chats', activeChatId)
                 /\ moodTrace' = [moodTrace EXCEPT ![activeChatId] = Append(@, entry)]
                 /\ last' = Call("logMoodToTracker", Undefined, FALSE)
                 /\ UNCHANGED <<activeChatId, clock, doneTrace>>

LogMoodToTracker(mood) ==
    LET hasTracker == /\ activeChatId \in DOMAIN chats
                      /\ "mood_tracker" \in DOMAIN chats[activeChatId].tools
                      /\ Len(chats[activeChatId].tools["mood_tracker"]) > 0
    IN  IF ~hasTracker
        THEN /\ last' = Call("logMoodToTracker", Undefined, FALSE)
             /\ UNCHANGED <<chats, activeChatId, storage, clock, doneTrace, moodTrace>>
        ELSE LET chat == chats[activeChatId]
                 moodTracker == chat.tools["mood_tracker"][1]
             IN  IF moodTracker = NullJson
                 THEN \* TypeError: cannot read properties of null
                      /\ last' = Call("logMoodToTracker", Undefined, TRUE)
                      /\ UNCHANGED <<chats, activeChatId, storage, clock, doneTrace, moodTrace>>
                 ELSE LET old == IF "history" \in DOMAIN moodTracker
                                 THEN moodTracker.history ELSE <<>>
                          entry == [mood |-> mood, timestamp |-> clock]
                          history == PushCapped(old, entry, MaxMoodHistory)
                          tracker == [f \in DOMAIN moodTracker \cup {"history"} |->
                                         IF f = "history" THEN history ELSE moodTracker[f]]
                      IN  /\ chats' = [chats EXCEPT
                                 ![activeChatId].tools["mood_tracker"][1] = tracker]
                          /\ storage' = State(chats', activeChatId)
                          /\ moodTrace' = [moodTrace EXCEPT
                                 ![activeChatId] = Append(@, entry)]
                          /\ last' = Call("logMoodToTracker", Undefined, FALSE)
                          /\ UNCHANGED <<activeChatId, clock, doneTrace>>

\* checklistArray.findIndex(list => list.id === toolId): 0 when nothing matches,
\* -1 when the scan dereferences a null entry before any match (TypeError)
RECURSIVE FindIndexFrom(_, _, _)
FindIndexFrom(arr, toolId, i) ==
    IF i > Len(arr) THEN 0
    ELSE IF arr[i] = NullJson THEN -1
    ELSE IF "id" \in DOMAIN arr[i] /\ arr[i].id = toolId THEN i
    ELSE FindIndexFrom(arr, toolId, i + 1)

FindIndex(arr, toolId) == FindIndexFrom(arr, toolId, 1)

\* the checklist left in the array with no items, as before the arrays of tools
NotPruned(checklistArray, toolIndex, items) ==
    [checklistArray EXCEPT ![toolIndex].items = items]

\* `if (checklist.items.length === 0) checklistArray.splice(toolIndex, 1)` after
\* the items of the checklist at toolIndex became items
Pruned(checklistArray, toolIndex, items) ==
    IF Len(items) = 0
    THEN RemoveAt(checklistArray, toolIndex - 1)
    ELSE [checklistArray EXCEPT ![toolIndex].items = items]

\* completeAndRemoveChecklistItem(toolId, itemIndex) on the chats c with active
\* id a: the chats it leaves in memory, what it returns, whether it throws,
\* and whether it reached saveState
Completion(c, ret, threw, saved) == [chats |-> c, ret |-> ret, threw |-> threw, saved |-> saved]

Completed(c, a, toolId, itemIndex) ==
    IF ~(a \in DOMAIN c /\ "checklist" \in DOMAIN c[a].tools)
    THEN Completion(c, NullJson, FALSE, FALSE)
    ELSE
    LET chat == c[a]
        checklistArray == chat.tools["checklist"]
        toolIndex == FindIndex(checklistArray, toolId)
    IN  IF toolIndex = -1 THEN Completion(c, Undefined, TRUE, FALSE)
        ELSE IF toolIndex = 0 THEN Completion(c, NullJson, FALSE, FALSE)
        ELSE
        LET checklist == checklistArray[toolIndex]
        IN  IF "items" \notin DOMAIN checklist
            THEN Completion(c, Undefined, TRUE, FALSE)
            ELSE
            LET start == SpliceStart(Len(checklist.items), itemIndex)
                removed == start < Len(checklist.items)
                items == IF removed THEN RemoveAt(checklist.items, start)
                         ELSE checklist.items
                arr == Pruned(checklistArray, toolIndex, items)
                tools == WithToolArray(chat.tools, "checklist", arr)
            IN  IF ~removed
                THEN \* completedItem is undefined: completedItem.text throws
                     \* after the splices, before saveState
                     Completion([c EXCEPT ![a].tools = tools], Undefined, TRUE, FALSE)
                ELSE LET text == checklist.items[start + 1].text
                         completed == PushCapped(chat.completed_tasks, text,
                                                 MaxCompletedTasks)
                     IN  Completion([c EXCEPT ![a] =
                                        [chat EXCEPT !.tools = tools,
                                                     !.completed_tasks = completed]],
                                    TextContent(text), FALSE, TRUE)

CompleteAndRemoveChecklistItem(toolId, itemIndex) ==
    LET r == Completed(chats, activeChatId, toolId, itemIndex)
    IN  /\ chats' = r.chats
        /\ storage' = IF r.saved THEN State(chats', activeChatId) ELSE storage
        /\ doneTrace' = IF r.saved
                        THEN [doneTrace EXCEPT ![activeChatId] = Append(@, r.ret.text)]
                        ELSE doneTrace
        /\ last' = CallAt("completeAndRemoveChecklistItem", toolId, itemIndex, r.ret, r.threw)
        /\ UNCHANGED <<activeChatId, clock, moodTrace>>

\* the items addItemToActiveChecklist pushes: the array given, or one item
\* made of the text given
NewItems(itemsToAdd) ==
    IF "items" \in DOMAIN itemsToAdd THEN itemsToAdd.items
    ELSE <<[text |-> itemsToAdd.text, done |-> FALSE]>>

\* addItemToActiveChecklist(itemsToAdd) on the chats c with active id a: the
\* chats it leaves, whether it throws and whether it reached saveState.
\* tools.checklist of the earlier ChatManager is the checklist stored last
ItemsAdded(c, a, itemsToAdd) ==
    LET arr == IF a \in DOMAIN c THEN ToolArray(c[a], "checklist") ELSE <<>>
        n == Len(arr)
    IN  IF n = 0 \/ arr[n] = NullJson
        THEN [chats |-> c, threw |-> FALSE, saved |-> FALSE]
        ELSE IF "items" \notin DOMAIN arr[n]
        THEN \* TypeError: checklist.items is undefined
             [chats |-> c, threw |-> TRUE, saved |-> FALSE]
        ELSE LET items == arr[n].items \o NewItems(itemsToAdd)
                 tools == WithToolArray(c[a].tools, "checklist",
                                        [arr EXCEPT ![n].items = items])
             IN  [chats |-> [c EXCEPT ![a].tools = tools],
                  threw |-> FALSE, saved |-> TRUE]

AddItemToActiveChecklist(itemsToAdd) ==
    LET r == ItemsAdded(chats, activeChatId, itemsToAdd)
    IN  /\ chats' = r.chats
        /\ storage' = IF r.saved THEN State(chats', activeChatId) ELSE storage
        /\ last' = Call("addItemToActiveChecklist", Undefined, r.threw)
        /\ UNCHANGED <<activeChatId, clock, doneTrace, moodTrace>>

\* new ChatManager(): the page is loaded again and the state read from localStorage
Reload ==
    /\ LET st == Healed(storage.chats, storage.activeChatId, clock)
       IN  /\ chats' = st.chats
           /\ activeChatId' = st.activeChatId
    /\ last' = Call("constructor", Undefined, FALSE)
    /\ turn' = Idle
    /\ pending' = 0
    /\ prompt' = NoPrompt
    /\ breathing' = NoBreathing
    /\ extraction' = <<>>
    /\ UNCHANGED <<storage, clock, doneTrace, moodTrace, variant, ops>>

(***************************************************************************)
(* Tool Registry: what the generation endpoint can answer                  *)
(***************************************************************************)
\* the n items of a synthesized checklist: their texts differ
Items(n) == [i \in 1..n |-> [text |-> Texts[i], done |-> FALSE]]

\* the ids the endpoint puts in its payloads: two payloads may carry the same
ToolIds == {1, 2}

\* JSON.parse(data.response) of a checklist request: the items the endpoint
\* chose (possibly none), or an object without an items array
ChecklistJson ==
    {[type |-> "checklist", id |-> i, items |-> Items(n)] :
        i \in ToolIds, n \in 0..MaxItems}
    \cup {[type |-> "checklist", id |-> i] : i \in ToolIds}

MoodTrackerJson ==
    {[type |-> "mood_tracker", id |-> i, history |-> <<>>] : i \in ToolIds}
    \cup {[type |-> "mood_tracker", id |-> i] : i \in ToolIds}

BreathingJson ==
    {[type |-> "breathing_exercise", id |-> i,
      cycle |-> [inhale |-> 4, hold |-> 4, exhale |-> 6]] : i \in ToolIds}

AffirmationJson ==
    {[type |-> "affirmation_card", id |-> i, text |-> <<"a">>] : i \in ToolIds}

ToolJson(type) ==
    CASE type = "checklist" -> ChecklistJson
      [] type = "mood_tracker" -> MoodTrackerJson
      [] type = "breathing_exercise" -> BreathingJson
      [] type = "affirmation_card" -> AffirmationJson
      [] OTHER -> {}

\* generateToolJson: the parsed object, or null when the request fails or the
\* response text is not JSON
GenerateToolJson(type) == ToolJson(type) \cup {NullJson}

\* createToolByType: null for a type outside the switch
CreateToolByType(type) ==
    IF type \in ToolKinds THEN GenerateToolJson(type) ELSE {NullJson}

(***************************************************************************)
(* Prompt assembly: the calls that throw before the request is sent        *)
(***************************************************************************)
\* historyToString of the router build: typeof null === 'object', and
\* null.type is a TypeError
HistoryToStringThrows(history) ==
    \E i \in 1..Len(history) : history[i].content = NullJson

\* toolsToString of the marker build: toolInstance.title on a null entry and
\* toolInstance.items.forEach on a checklist without items are TypeErrors
ToolsToStringThrows(tools) ==
    \E k \in DOMAIN tools \cap ToolKinds : \E i \in 1..Len(tools[k]) :
        \/ tools[k][i] = NullJson
        \/ k = "checklist" /\ "items" \notin DOMAIN tools[k][i]

\* getOllamaResponse throws while it builds the prompt, before its fetch
PromptThrows(c, a) ==
    IF variant = "router"
    THEN HistoryToStringThrows(c[a].history)
    ELSE ToolsToStringThrows(c[a].tools)

\* the types of the toolFollowUp objects the two builds pass to
\* getOllamaResponse; "none" is the null of a call that follows nothing up
FollowUpTypes ==
    {"none", "search", "persistent_tool_created", "item_added", "more_items_added",
     "breathing_complete", "checklist_item_completed", "mood_logged",
     "affirmation_committed"}

\* userPromptWithNotes of the earlier getOllamaResponse: how many
\* [System Note: ...] segments it holds and whether `User: ${prompt}` is in
\* it; a search follow-up fills contextBlock and leaves it as it is
UserPromptWithNotes(type) ==
    CASE type \in {"persistent_tool_created", "item_added", "more_items_added"} ->
            [notes |-> 1, user |-> TRUE]
      [] type \in {"breathing_complete", "checklist_item_completed", "mood_logged",
                   "affirmation_committed"} ->
            [notes |-> 1, user |-> FALSE]
      [] OTHER -> [notes |-> 0, user |-> TRUE]

\* userPromptSegment of the later getOllamaResponse
UserPromptSegment(type) ==
    CASE type \in {"mood_logged", "checklist_item_completed", "breathing_complete"} ->
            [notes |-> 1, user |-> FALSE]
      [] OTHER -> [notes |-> 0, user |-> TRUE]

\* fullPrompt of getOllamaResponse(prompt, toolFollowUp) in the build at hand
FullPrompt(type) ==
    LET segment == IF variant = "router" THEN UserPromptWithNotes(type)
                   ELSE UserPromptSegment(type)
    IN  [followUp |-> type, notes |-> segment.notes, user |-> segment.user]

\* followUp after the switch of handleSendMessage over toolDecision.tool
FollowUpOf(toolDecision) ==
    CASE toolDecision.tool \in {"checklist", "breathing_exercise", "affirmation_card"} ->
            "persistent_tool_created"
      [] toolDecision.tool = "search" -> "search"
      [] toolDecision.tool = "add_to_checklist" -> "item_added"
      [] /\ toolDecision.tool = "generate_more_items"
         /\ "items" \in DOMAIN toolDecision.newItems
         /\ Len(toolDecision.newItems.items) > 0 -> "more_items_added"
      [] OTHER -> "none"

(***************************************************************************)
(* Router build: handleSendMessage of js/app.js                            *)
(***************************************************************************)
\* the toolDecision objects decideAndExecuteTool resolves to for the tool cases
ToolDecisions ==
    {[tool |-> "chat"], [tool |-> "search"]}
    \cup {[tool |-> k, content |-> j] :
            k \in {"checklist"}, j \in GenerateToolJson("checklist")}
    \cup {[tool |-> k, content |-> j] :
            k \in {"breathing_exercise"}, j \in GenerateToolJson("breathing_exercise")}
    \cup {[tool |-> k, content |-> j] :
            k \in {"affirmation_card"}, j \in GenerateToolJson("affirmation_card")}
    \cup {[tool |-> k, content |-> j] :
            k \in {"mood_tracker"}, j \in GenerateToolJson("mood_tracker")}

\* the decisions of one tool: the payload is what generateToolJson resolved to
DecisionsOf(tool) ==
    IF tool \in {"chat", "search"} THEN {[tool |-> tool]}
    ELSE {[tool |-> tool, content |-> j] : j \in GenerateToolJson(tool)}

\* the directives a response of the router model is made of; "OTHER" is text
\* in none of the formats
Directives ==
    {"CHAT", "SEARCH", "CHECKLIST", "BREATHING_EXERCISE", "MOOD_TRACKER",
     "AFFIRMATION_CARD", "OTHER"}

\* the formats tested with startsWith, and those tested with ===
PrefixDirectives == {"SEARCH", "CHECKLIST", "AFFIRMATION_CARD"}

ExactDirectives == {"BREATHING_EXERCISE", "MOOD_TRACKER"}

ToolOf(directive) ==
    CASE directive = "SEARCH" -> "search"
      [] directive = "CHECKLIST" -> "checklist"
      [] directive = "BREATHING_EXERCISE" -> "breathing_exercise"
      [] directive = "MOOD_TRACKER" -> "mood_tracker"
      [] directive = "AFFIRMATION_CARD" -> "affirmation_card"
      [] OTHER -> "chat"

\* data.response.trim() of the router request: the directives in the text,
\* one after the other with a separator between them; none when the request
\* failed
RouterResponses == UNION {[1..n -> Directives] : n \in 0..MaxDirectives}

\* the toolDecision objects decideAndExecuteTool resolves to for a response:
\* a format tested with startsWith takes what follows as its argument, a
\* format tested with === matches the whole text only
Decided(response) ==
    IF response = <<>> THEN {[tool |-> "chat"]}
    ELSE IF response[1] \in PrefixDirectives THEN DecisionsOf(ToolOf(response[1]))
    ELSE IF Len(response) = 1 /\ response[1] \in ExactDirectives
         THEN DecisionsOf(ToolOf(response[1]))
    ELSE {[tool |-> "chat"]}

\* handleSendMessage up to its first await that leaves the event loop
HandleSendMessage(message) ==
    /\ turn = Idle
    /\ chats' = MessageAdded(chats, activeChatId, "user", TextContent(message))
    /\ storage' = State(chats', activeChatId)
    /\ IF variant = "router"
       THEN IF HistoryToStringThrows(chats'[activeChatId].history)
            THEN /\ turn' = Idle
                 /\ last' = Call("decideAndExecuteTool", Undefined, TRUE)
            ELSE /\ turn' = [pc |-> "route", tags |-> <<>>, chat |-> activeChatId]
                 /\ last' = Call("addMessageToActiveChat", Undefined, FALSE)
       ELSE IF ToolsToStringThrows(chats'[activeChatId].tools)
            THEN /\ turn' = Idle
                 /\ last' = Call("getOllamaResponse", Undefined, TRUE)
            ELSE /\ turn' = [pc |-> "reply", tags |-> <<>>, chat |-> activeChatId]
                 /\ last' = Call("addMessageToActiveChat", Undefined, FALSE)
    /\ prompt' = IF turn'.pc = "reply" THEN FullPrompt("none") ELSE prompt
    /\ UNCHANGED <<activeChatId, clock, doneTrace, moodTrace, variant, pending,
                   extraction, breathing>>

\* decideAndExecuteTool has resolved to toolDecision: the switch of
\* handleSendMessage, then triggerAIFollowUp up to its fetch
RouterReturns(toolDecision) ==
    /\ turn.pc = "route"
    /\ LET tool == toolDecision.tool
       IN  IF tool \in {"checklist", "breathing_exercise", "affirmation_card"}
           THEN /\ chats' = ToolAdded(chats, activeChatId, tool, toolDecision.content)
                /\ storage' = State(chats', activeChatId)
                /\ IF PromptThrows(chats', activeChatId)
                   THEN /\ turn' = Idle
                        /\ last' = Call("getOllamaResponse", Undefined, TRUE)
                   ELSE /\ turn' = [pc |-> "followup", tags |-> <<>>, chat |-> turn.chat]
                        /\ last' = Call("addOrUpdateToolInActiveChat", toolDecision.content, FALSE)
           ELSE IF tool = "mood_tracker"
           THEN /\ chats' = MessageAdded(chats, activeChatId, "ai", toolDecision.content)
                /\ storage' = State(chats', activeChatId)
                /\ last' = Call("addMessageToActiveChat", toolDecision.content, FALSE)
                /\ turn' = Idle
           ELSE IF FollowUpOf(toolDecision) \in {"item_added", "more_items_added"}
           THEN LET itemsToAdd == IF tool = "add_to_checklist"
                                  THEN TextContent(toolDecision.itemText)
                                  ELSE toolDecision.newItems
                    r == ItemsAdded(chats, activeChatId, itemsToAdd)
                IN  /\ chats' = r.chats
                    /\ storage' = IF r.saved THEN State(chats', activeChatId) ELSE storage
                    /\ IF r.threw
                       THEN /\ turn' = Idle
                            /\ last' = Call("addItemToActiveChecklist", Undefined, TRUE)
                       ELSE IF PromptThrows(chats', activeChatId)
                       THEN /\ turn' = Idle
                            /\ last' = Call("getOllamaResponse", Undefined, TRUE)
                       ELSE /\ turn' = [pc |-> "followup", tags |-> <<>>,
                                        chat |-> turn.chat]
                            /\ last' = Call("addItemToActiveChecklist", Undefined, FALSE)
           ELSE /\ IF PromptThrows(chats, activeChatId)
                   THEN /\ turn' = Idle
                        /\ last' = Call("getOllamaResponse", Undefined, TRUE)
                   ELSE /\ turn' = [pc |-> "followup", tags |-> <<>>, chat |-> turn.chat]
                        /\ UNCHANGED last
                /\ UNCHANGED <<chats, storage>>
    /\ prompt' = IF turn'.pc = "followup" THEN FullPrompt(FollowUpOf(toolDecision))
                 ELSE prompt
    /\ UNCHANGED <<activeChatId, clock, doneTrace, moodTrace, variant, pending,
                   extraction, breathing>>

\* a memory extraction whose summarizer request is in flight; chat is the
\* conversation the exchange it reads was stored in, the active one
Extracting == [pc |-> "extract", facts |-> <<>>, chat |-> activeChatId]

\* an extraction started whether the reply request succeeded or not
ExtractionStartedAlways(ok, tasks) == Append(tasks, Extracting)

\* extractAndSaveMemoriesForActiveChat(conversationSnippet) is called inside the
\* try of getOllamaResponse, after the reply was stored, and is not awaited:
\* it runs up to its fetch and getOllamaResponse returns the reply
ExtractionStarted(ok, tasks) == IF ok THEN Append(tasks, Extracting) ELSE tasks

\* getOllamaResponse of the router build has resolved: the reply is stored by
\* getOllamaResponse itself, and only when the request succeeded
FollowUpReturns(ok) ==
    /\ turn.pc = "followup"
    /\ IF ok
       THEN /\ chats' = MessageAdded(chats, activeChatId, "ai", TextContent("reply"))
            /\ storage' = State(chats', activeChatId)
            /\ last' = Call("addMessageToActiveChat", Undefined, FALSE)
       ELSE UNCHANGED <<chats, storage, last>>
    /\ extraction' = ExtractionStarted(ok, extraction)
    /\ turn' = Idle
    /\ UNCHANGED <<activeChatId, clock, doneTrace, moodTrace, variant, pending,
                   prompt, breathing>>

(***************************************************************************)
(* Marker build: handleSendMessage of the later app.js                     *)
(***************************************************************************)
\* the type attributes a reply can carry in its <tool_create .../> markers
MarkerTypes == ToolKinds \cup {"journal"}

\* the matched tags of a reply, in reply order
Replies == UNION {[1..n -> MarkerTypes] : n \in 0..MaxTags}

\* s.replace(x, ''): the first occurrence of the tag x taken out of the tags
\* still in the text
RECURSIVE RemoveFirst(_, _)
RemoveFirst(tags, x) ==
    IF tags = <<>> THEN <<>>
    ELSE IF Head(tags) = x THEN Tail(tags)
    ELSE <<Head(tags)>> \o RemoveFirst(Tail(tags), x)

\* cleanedResponse after the loop over matchedTags: the tags left in the text
\* once match[0] of every match has been replaced by ''
RECURSIVE Stripped(_, _)
Stripped(tags, matchedTags) ==
    IF matchedTags = <<>> THEN tags
    ELSE Stripped(RemoveFirst(tags, Head(matchedTags)), Tail(matchedTags))

\* the content of a reply that is stored: its text, and the tags in the text
ReplyContent(text, tags) ==
    IF tags = <<>> THEN TextContent(text) ELSE [text |-> text, markers |-> tags]

\* createToolByType resolves without a request for a type outside the switch:
\* the loop passes such tags without leaving the event loop
RECURSIVE SkipUnknown(_)
SkipUnknown(tags) ==
    IF tags = <<>> \/ Head(tags) \in ToolKinds THEN tags
    ELSE SkipUnknown(Tail(tags))

\* getOllamaResponse of the marker build has resolved to the reply (ok) or to
\* the apology text (~ok); the tag loop starts
ReplyReturns(ok, reply) ==
    /\ turn.pc = "reply"
    /\ ~ok => reply = <<>>
    /\ LET rest == SkipUnknown(reply)
           text == IF ok THEN "reply" ELSE "sorry"
           cleanedResponse == ReplyContent(text, Stripped(reply, reply))
       IN  IF rest = <<>>
           THEN /\ chats' = MessageAdded(chats, activeChatId, "ai", cleanedResponse)
                /\ storage' = State(chats', activeChatId)
                /\ last' = Call("addMessageToActiveChat", Undefined, FALSE)
                /\ turn' = Idle
           ELSE /\ turn' = [pc |-> "synth", tags |-> rest, chat |-> turn.chat]
                /\ UNCHANGED <<chats, storage, last>>
    /\ UNCHANGED <<activeChatId, clock, doneTrace, moodTrace, variant, pending,
                   prompt, extraction, breathing>>

\* createToolByType has resolved to toolData for the first remaining tag
SynthReturns(toolData) ==
    /\ turn.pc = "synth"
    /\ LET toolType == Head(turn.tags)
           rest == SkipUnknown(Tail(turn.tags))
           added == IF toolData # NullJson
                    THEN ToolAdded(chats, activeChatId, toolType, toolData)
                    ELSE chats
           \* the tags still in the text are those the loop has not reached
           cleanedResponse == ReplyContent("reply", Stripped(turn.tags, turn.tags))
       IN  /\ toolData \in CreateToolByType(toolType)
           /\ IF rest = <<>>
              THEN /\ chats' = MessageAdded(added, activeChatId, "ai", cleanedResponse)
                   /\ storage' = State(chats', activeChatId)
                   /\ last' = Call("addMessageToActiveChat", toolData, FALSE)
                   /\ turn' = Idle
              ELSE /\ chats' = added
                   /\ storage' = IF toolData # NullJson
                                 THEN State(chats', activeChatId) ELSE storage
                   /\ last' = Call("createToolByType", toolData, FALSE)
                   /\ turn' = [pc |-> "synth", tags |-> rest, chat |-> turn.chat]
    /\ UNCHANGED <<activeChatId, clock, doneTrace, moodTrace, variant, pending,
                   prompt, extraction, breathing>>

(***************************************************************************)
(* Toolbox handlers and their follow-up replies                            *)
(***************************************************************************)
\* triggerAIFollowUp is entered: one more reply request in flight, unless the
\* prompt assembly throws
FollowUpStarted == IF PromptThrows(chats', activeChatId') THEN pending ELSE pending + 1

\* the change handler of the toolbox: a checklist checkbox was ticked
CompleteHandler(toolId, itemIndex) ==
    /\ CompleteAndRemoveChecklistItem(toolId, itemIndex)
    /\ pending' = IF ~last'.threw /\ last'.ret # NullJson
                  THEN FollowUpStarted ELSE pending
    /\ prompt' = IF pending' > pending THEN FullPrompt("checklist_item_completed")
                 ELSE prompt
    /\ UNCHANGED <<variant, turn, extraction, breathing>>

\* the log_mood case of the tool interaction listener
LogMoodHandler(mood) ==
    /\ IF variant = "marker"
       THEN LogMoodToTracker(mood)
       ELSE /\ last' = Call("log_mood", Undefined, FALSE)
            /\ UNCHANGED <<chats, activeChatId, storage, clock, doneTrace, moodTrace>>
    /\ pending' = IF ~last'.threw THEN FollowUpStarted ELSE pending
    /\ prompt' = IF pending' > pending THEN FullPrompt("mood_logged") ELSE prompt
    /\ UNCHANGED <<variant, turn, extraction, breathing>>

\* the tags a follow-up reply can carry: none, or one
FollowUpReplies == {r \in Replies : Len(r) <= 1}

\* a follow-up reply request has resolved: the marker build stores whatever
\* text came back, with the tags in it; the router build stores the reply of
\* a successful request
FollowUpDone(ok, reply) ==
    /\ pending > 0
    /\ (variant = "router" \/ ~ok) => reply = <<>>
    /\ pending' = pending - 1
    /\ IF variant = "marker" \/ ok
       THEN /\ chats' = MessageAdded(chats, activeChatId, "ai",
                                     ReplyContent(IF ok THEN "reply" ELSE "sorry", reply))
            /\ storage' = State(chats', activeChatId)
            /\ last' = Call("addMessageToActiveChat", Undefined, FALSE)
       ELSE UNCHANGED <<chats, storage, last>>
    /\ extraction' = ExtractionStarted(variant = "router" /\ ok, extraction)
    /\ UNCHANGED <<activeChatId, clock, doneTrace, moodTrace, variant, turn, prompt, breathing>>

(***************************************************************************)
(* Breathing exercise: the start_breathing case of the tool interaction    *)
(* listener and its timers                                                 *)
(***************************************************************************)
\* the state of the start button of exercise e
Run(e) == IF e \in DOMAIN breathing.runs THEN breathing.runs[e] ELSE NoRun

WithRun(b, e, r) ==
    [b EXCEPT !.runs = [x \in DOMAIN b.runs \cup {e} |-> IF x = e THEN r ELSE b.runs[x]]]

\* the ids of the breathing exercises the toolbox shows a start button for
BreathingIds ==
    LET arr == ToolArray(chats[activeChatId], "breathing_exercise")
    IN  {arr[i].id : i \in {k \in 1..Len(arr) : arr[k] # NullJson}}

\* a click on the start button of exercise e: a disabled button takes no
\* click; the interval that is set is cleared, whichever exercise set it,
\* the first doBreathCycle() runs at once and the interval is set
StartBreathing(e) ==
    /\ e \in BreathingIds
    /\ ~Run(e).disabled
    /\ breathing' = [WithRun(breathing, e,
                             [loops |-> Loops, phase |-> "inhale", cycles |-> 1,
                              followUps |-> 0, disabled |-> TRUE])
                         EXCEPT !.breathInterval = e]
    /\ UNCHANGED <<chats, activeChatId, storage, clock, last, doneTrace, moodTrace,
                   variant, turn, pending, prompt, extraction>>

\* the timeout after cycle.inhale seconds: 'Hold...'
InhaleEnds(e) ==
    /\ Run(e).phase = "inhale"
    /\ breathing' = WithRun(breathing, e, [Run(e) EXCEPT !.phase = "hold"])
    /\ UNCHANGED <<chats, activeChatId, storage, clock, last, doneTrace, moodTrace,
                   variant, turn, pending, prompt, extraction>>

\* the timeout after cycle.hold more seconds: 'Breathe Out...' and loops--
HoldEnds(e) ==
    /\ Run(e).phase = "hold"
    /\ breathing' = WithRun(breathing, e,
                            [Run(e) EXCEPT !.phase = "exhale", !.loops = @ - 1])
    /\ UNCHANGED <<chats, activeChatId, storage, clock, last, doneTrace, moodTrace,
                   variant, turn, pending, prompt, extraction>>

\* the interval fires doBreathCycle of the exercise that set it, a whole
\* cycle after the call before: the next cycle, or the completion with its
\* follow-up once loops is 0
IntervalFires ==
    LET e == breathing.breathInterval
    IN  /\ e # NULL
        /\ Run(e).phase = "exhale"
        /\ UNCHANGED <<chats, activeChatId, storage, clock, last, doneTrace,
                       moodTrace, variant, turn, extraction>>
        /\ IF Run(e).loops <= 0
           THEN /\ breathing' = [WithRun(breathing, e,
                                         [Run(e) EXCEPT !.phase = "idle",
                                                        !.disabled = FALSE,
                                                        !.followUps = @ + 1])
                                     EXCEPT !.breathInterval = NULL]
                /\ pending' = FollowUpStarted
                /\ prompt' = IF pending' > pending THEN FullPrompt("breathing_complete")
                             ELSE prompt
           ELSE /\ breathing' = WithRun(breathing, e,
                                        [Run(e) EXCEPT !.phase = "inhale",
                                                       !.cycles = @ + 1])
                /\ UNCHANGED <<pending, prompt>>

(***************************************************************************)
(* Memories: addMemoryToActiveChat and findRelevantMemories                *)
(***************************************************************************)
\* the { text, embedding } objects extractAndSaveMemoriesForActiveChat builds:
\* the embedding endpoint answers a text with one vector, of a fixed dimension
MemoryObjects ==
    {[text |-> "a", embedding |-> <<1, 0>>],
     [text |-> "b", embedding |-> <<0, 1>>],
     [text |-> "c", embedding |-> <<-1, 0>>],
     [text |-> "d", embedding |-> <<0, 0>>]}

\* the vectors the embedding endpoint answers a query text with
QueryEmbeddings == {<<1, 0>>, <<1, 1>>, <<0, -1>>, <<0, 0>>}

\* getEmbedding(queryText): data.embedding, or null when the request fails
GetEmbedding == {[vector |-> v] : v \in QueryEmbeddings} \cup {NullJson}

\* vec.reduce((sum, a, i) => sum + a * vecB[i], 0)
RECURSIVE DotFrom(_, _, _)
DotFrom(vecA, vecB, i) ==
    IF i > Len(vecA) THEN 0 ELSE vecA[i] * vecB[i] + DotFrom(vecA, vecB, i + 1)

Dot(vecA, vecB) == DotFrom(vecA, vecB, 1)

\* the dot product over the squared magnitude of vecA alone
ProjectionSimilarity(vecA, vecB) ==
    LET dotProduct == Dot(vecA, vecB)
    IN  IF Dot(vecA, vecA) * Dot(vecB, vecB) = 0 THEN [s |-> 0, n |-> 1]
        ELSE [s |-> (IF dotProduct < 0 THEN -1 ELSE 1) * dotProduct * dotProduct,
              n |-> Dot(vecA, vecA) * Dot(vecA, vecA)]

\* the division made whatever the magnitudes are
CosineUnchecked(vecA, vecB) ==
    LET dotProduct == Dot(vecA, vecB)
    IN  [s |-> (IF dotProduct < 0 THEN -1 ELSE 1) * dotProduct * dotProduct,
         n |-> Dot(vecA, vecA) * Dot(vecB, vecB)]

\* cosineSimilarity(vecA, vecB) as the fraction s / n with n > 0 that orders
\* as the cosine does: the signed square of the dot product over the product
\* of the squared magnitudes; 0 when a magnitude is 0
CosineSimilarity(vecA, vecB) ==
    LET dotProduct == Dot(vecA, vecB)
        magnitudes == Dot(vecA, vecA) * Dot(vecB, vecB)
    IN  IF magnitudes = 0 THEN [s |-> 0, n |-> 1]
        ELSE [s |-> (IF dotProduct < 0 THEN -1 ELSE 1) * dotProduct * dotProduct,
              n |-> magnitudes]

\* the arguments of cosineSimilarity: numeric vectors of one dimension count,
\* or an absent value
Vectors == {<<x, y>> : x, y \in -MaxCoordinate..MaxCoordinate}

CosineArguments == {[vector |-> v] : v \in Vectors} \cup {NullJson}

\* what cosineSimilarity returns: `if (!vecA || !vecB) return 0`, then the
\* computation over the two vectors
CosineSimilarityResult(vecA, vecB) ==
    IF vecA = NullJson \/ vecB = NullJson THEN [s |-> 0, n |-> 1]
    ELSE CosineSimilarity(vecA.vector, vecB.vector)

\* one call of cosineSimilarity(vecA, vecB)
CosineSimilarityCall(vecA, vecB) ==
    /\ last' = [op |-> "cosineSimilarity", ret |-> CosineSimilarityResult(vecA, vecB),
                threw |-> FALSE, arg |-> [vecA |-> vecA, vecB |-> vecB],
                idx |-> 0, was |-> 0]
    /\ UNCHANGED <<chats, activeChatId, storage, clock, doneTrace, moodTrace>>

\* a.score > b.score
Greater(a, b) == a.s * b.n > b.s * a.n

\* the scored memories sorted in ascending order, (a, b) => a.score - b.score
RECURSIVE SortedAscending(_)
SortedAscending(scored) ==
    IF scored = <<>> THEN <<>>
    ELSE LET x == scored[Len(scored)]
             before == SortedAscending(SubSeq(scored, 1, Len(scored) - 1))
             keep == {i \in 1..Len(before) : ~Greater(before[i].score, x.score)}
             at == Cardinality(keep)
         IN  SubSeq(before, 1, at) \o <<x>> \o SubSeq(before, at + 1, Len(before))

\* scoredMemories.sort((a, b) => b.score - a.score): a stable sort, an entry
\* goes after the entries before it whose score is not smaller
RECURSIVE Sorted(_)
Sorted(scored) ==
    IF scored = <<>> THEN <<>>
    ELSE LET x == scored[Len(scored)]
             before == Sorted(SubSeq(scored, 1, Len(scored) - 1))
             keep == {i \in 1..Len(before) : ~Greater(x.score, before[i].score)}
             at == Cardinality(keep)
         IN  SubSeq(before, 1, at) \o <<x>> \o SubSeq(before, at + 1, Len(before))

\* a memory object that was stored without an embedding
UnembeddedMemory == [text |-> "e"]

\* the score the map of findRelevantMemories gives a memory: 0, without a
\* call of cosineSimilarity, when `!memory.embedding`
Score(queryEmbedding, memory) ==
    IF "embedding" \notin DOMAIN memory THEN [s |-> 0, n |-> 1]
    ELSE CosineSimilarity(queryEmbedding.vector, memory.embedding)

\* what findRelevantMemories(queryText, topK) resolves to over the memories,
\* queryEmbedding being what getEmbedding(queryText) resolved to
RelevantMemories(memories, queryEmbedding, topK) ==
    IF Len(memories) = 0 THEN <<>>
    ELSE IF queryEmbedding = NullJson THEN <<>>
    ELSE LET scoredMemories ==
                 Sorted([i \in 1..Len(memories) |->
                            [text |-> memories[i].text,
                             score |-> Score(queryEmbedding, memories[i])]])
             top == SubSeq(scoredMemories, 1, Min(topK, Len(scoredMemories)))
         IN  [i \in 1..Len(top) |-> top[i].text]

\* the record of a retrieval: the query embedding, topK and the texts returned
CallWith(op, queryEmbedding, topK, texts) ==
    [op |-> op, ret |-> [texts |-> texts], threw |-> FALSE,
     arg |-> queryEmbedding, idx |-> topK, was |-> 0]

FindRelevantMemories(queryEmbedding, topK) ==
    /\ last' = CallWith("findRelevantMemories", queryEmbedding, topK,
                        RelevantMemories(chats[activeChatId].memories,
                                         queryEmbedding, topK))
    /\ UNCHANGED <<chats, activeChatId, storage, clock, doneTrace, moodTrace>>

\* the chats after addMemoryToActiveChat(memoryObject) with active id a
MemoryAdded(c, a, memoryObject) ==
    IF a # NULL
    THEN [c EXCEPT ![a].memories = Append(@, memoryObject)]
    ELSE c

AddMemoryToActiveChat(memoryObject) ==
    /\ chats' = MemoryAdded(chats, activeChatId, memoryObject)
    /\ storage' = IF activeChatId # NULL THEN State(chats', activeChatId) ELSE storage
    /\ last' = Call("addMemoryToActiveChat", Undefined, FALSE)
    /\ UNCHANGED <<activeChatId, clock, doneTrace, moodTrace>>

(***************************************************************************)
(* Memory Extractor: extractAndSaveMemoriesForActiveChat                   *)
(***************************************************************************)
\* data.response of the summarizer request is the sentinel NONE, in any case
Sentinel == [sentinel |-> TRUE]

\* facts.split('\n'): each line is a fact, or is blank once the leading dash
\* is taken off; the facts of one response differ
FactLines ==
    UNION {{l \in [1..n -> {Texts[i] : i \in 1..n} \cup {""}] :
               \A i \in 1..n : l[i] \in {Texts[i], ""}} : n \in 1..MaxFacts}

\* what the summarizer request resolves to: no usable response (the request
\* failed, or the body has no response text), the sentinel, or lines
ExtractorResponses == {NullJson, Sentinel} \cup {[lines |-> l] : l \in FactLines}

\* the loop passes the lines with `if (cleanFact)` false without an await
RECURSIVE SkipBlank(_)
SkipBlank(lines) ==
    IF lines = <<>> \/ Head(lines) # "" THEN lines ELSE SkipBlank(Tail(lines))

\* the tasks once the task at position i goes on with the lines left, or has
\* come to its end
Continued(tasks, i, lines) ==
    IF lines = <<>> THEN RemoveAt(tasks, i - 1)
    ELSE [tasks EXCEPT ![i] = [tasks[i] EXCEPT !.pc = "embed", !.facts = lines]]

\* the summarizer request of the extraction at position i has resolved
ExtractorReplies(i, response) ==
    /\ i \in 1..Len(extraction)
    /\ extraction[i].pc = "extract"
    /\ LET lines == IF response \in {NullJson, Sentinel} THEN <<>>
                    ELSE SkipBlank(response.lines)
       IN  extraction' = Continued(extraction, i, lines)
    /\ last' = Call("extractAndSaveMemoriesForActiveChat", response, FALSE)
    /\ UNCHANGED <<chats, activeChatId, storage, clock, doneTrace, moodTrace,
                   variant, turn, pending, ops, prompt, breathing>>

\* what getEmbedding(cleanFact) resolves to when the request succeeds: the
\* vector of the text
EmbeddingOf(text) ==
    [vector |-> (CHOOSE o \in MemoryObjects : o.text = text).embedding]

\* what getEmbedding resolves to for the facts: a vector, or null when the
\* request failed
FactEmbeddings == {EmbeddingOf(Texts[i]) : i \in 1..MaxFacts} \cup {NullJson}

\* the fact stored with or without an embedding
FactIndexedAlways(c, a, fact, embedding) ==
    MemoryAdded(c, a, IF embedding = NullJson THEN [text |-> fact]
                      ELSE [text |-> fact, embedding |-> embedding.vector])

\* `if (embedding) chatManager.addMemoryToActiveChat({ text, embedding })`
FactIndexed(c, a, fact, embedding) ==
    IF embedding # NullJson
    THEN MemoryAdded(c, a, [text |-> fact, embedding |-> embedding.vector])
    ELSE c

\* getEmbedding has resolved for the fact the extraction at position i is at
EmbeddingReturns(i, embedding) ==
    /\ i \in 1..Len(extraction)
    /\ extraction[i].pc = "embed"
    /\ LET fact == Head(extraction[i].facts)
       IN  /\ embedding \in {EmbeddingOf(fact), NullJson}
           /\ chats' = FactIndexed(chats, activeChatId, fact, embedding)
           /\ storage' = IF embedding # NullJson /\ activeChatId # NULL
                         THEN State(chats', activeChatId) ELSE storage
           /\ last' = IF embedding # NullJson
                      THEN Call("addMemoryToActiveChat", Undefined, FALSE)
                      ELSE Call("getEmbedding", NullJson, FALSE)
           /\ extraction' = Continued(extraction, i,
                                      SkipBlank(Tail(extraction[i].facts)))
    /\ UNCHANGED <<activeChatId, clock, doneTrace, moodTrace, variant, turn,
                   pending, ops, prompt, breathing>>

(***************************************************************************)
(* The specification of the store under both builds                        *)
(***************************************************************************)
\* every payload the endpoint can answer with
AnyToolJson == UNION {ToolJson(k) : k \in ToolKinds}

\* one payload of each kind
SomeToolJson ==
    {[type |-> "checklist", id |-> 1, items |-> Items(1)],
     [type |-> "mood_tracker", id |-> 1, history |-> <<>>],
     [type |-> "breathing_exercise", id |-> 1,
      cycle |-> [inhale |-> 4, hold |-> 4, exhale |-> 6]],
     [type |-> "affirmation_card", id |-> 1, text |-> <<"a">>]}

\* getActiveChat(): the active conversation
ActiveChat == chats[activeChatId]

\* the checklists of the active conversation
Checklists == ToolArray(ActiveChat, "checklist")

\* a call made outside a send: the pipeline is where it was
Direct == UNCHANGED <<variant, turn, pending, prompt, extraction, breathing>>

\* one more of the n content operations the run is bounded to
Counted(n) == ops < n /\ ops' = ops + 1

\* the life cycle of the conversations: creation, selection, deletion and
\* reload at any clock reading, with the mutators of the active conversation
Next ==
    \/ Tick /\ Direct /\ UNCHANGED ops
    \/ CreateNewChat /\ Direct /\ UNCHANGED ops
    \/ \E id \in 1..MaxClock : SetActiveChat(id) /\ Direct /\ UNCHANGED ops
    \/ \E id \in 1..MaxClock : DeleteChat(id) /\ Direct /\ UNCHANGED ops
    \/ Reload
    \/ /\ AddMessageToActiveChat("user", TextContent("hi"))
       /\ Direct /\ Counted(LifeOps)
    \/ /\ \E j \in SomeToolJson : AddOrUpdateToolInActiveChat(j.type, j)
       /\ Direct /\ Counted(LifeOps)
    \/ /\ \E idx \in 0..1 : CompleteAndRemoveChecklistItem(1, idx)
       /\ Direct /\ Counted(LifeOps)
    \/ LogMoodToTracker("Happy") /\ Direct /\ Counted(LifeOps)
    \/ /\ AddMemoryToActiveChat([text |-> "a", embedding |-> <<1, 0>>])
       /\ Direct /\ Counted(LifeOps)

Spec == Init /\ [][Next]_vars

(***************************************************************************)
(* The tools of one conversation under the calls of the store contract,    *)
(* with any checklist, a tool of another kind, and any arguments           *)
(***************************************************************************)
ToolInputs ==
    {j \in ChecklistJson : "items" \in DOMAIN j}
    \cup {j \in SomeToolJson : j.type = "mood_tracker"}

NextTools ==
    \/ Reload
    \/ /\ \E j \in ToolInputs : AddOrUpdateToolInActiveChat(j.type, j)
       /\ Direct /\ Counted(ToolOps)
    \/ /\ \E id \in ToolIds, idx \in -1..MaxItems :
              CompleteAndRemoveChecklistItem(id, idx)
       /\ Direct /\ Counted(ToolOps)

SpecTools == Init /\ [][NextTools]_vars

(***************************************************************************)
(* The marker build over one conversation: sends, tag loop, toolbox        *)
(***************************************************************************)
NextMarker ==
    \/ Reload
    \/ HandleSendMessage("hi") /\ Counted(TurnOps)
    \/ \E ok \in BOOLEAN, r \in Replies : ReplyReturns(ok, r) /\ UNCHANGED ops
    \/ \E j \in AnyToolJson \cup {NullJson} : SynthReturns(j) /\ Counted(TurnOps)
    \/ /\ pending < MaxPending
       /\ \E id \in ToolIds, idx \in -1..MaxItems : CompleteHandler(id, idx)
       /\ Counted(TurnOps)
    \/ /\ pending < MaxPending
       /\ \E m \in Moods : LogMoodHandler(m)
       /\ Counted(TurnOps)
    \/ \E ok \in BOOLEAN, r \in FollowUpReplies : FollowUpDone(ok, r) /\ UNCHANGED ops

SpecMarker == Init /\ [][NextMarker]_vars

(***************************************************************************)
(* The router build over one conversation: sends, tool cases, toolbox      *)
(***************************************************************************)
InitRouter == InitStore /\ variant = "router"

NextRouter ==
    \/ Reload
    \/ HandleSendMessage("hi") /\ Counted(TurnOps)
    \/ /\ \E response \in RouterResponses : \E d \in Decided(response) :
              RouterReturns(d)
       /\ Counted(TurnOps)
    \/ \E ok \in BOOLEAN : FollowUpReturns(ok) /\ UNCHANGED ops
    \/ /\ pending < MaxPending
       /\ \E id \in ToolIds, idx \in -1..MaxItems : CompleteHandler(id, idx)
       /\ Counted(TurnOps)
    \/ /\ pending < MaxPending
       /\ \E m \in Moods : LogMoodHandler(m)
       /\ Counted(TurnOps)
    \/ \E ok \in BOOLEAN, r \in FollowUpReplies : FollowUpDone(ok, r) /\ UNCHANGED ops

SpecRouter == InitRouter /\ [][NextRouter]_vars

(***************************************************************************)
(* One conversation whose checklists are completed item by item, for as    *)
(* long as the log of completed tasks takes to fill and overflow           *)
(***************************************************************************)
LogChecklist == [type |-> "checklist", id |-> 1, items |-> Items(2)]

NextLog ==
    \/ Reload
    \/ /\ Checklists = <<>>
       /\ AddOrUpdateToolInActiveChat("checklist", LogChecklist)
       /\ Direct /\ UNCHANGED ops
    \/ /\ Len(doneTrace[activeChatId]) < MaxDone
       /\ \E idx \in 0..1 : CompleteAndRemoveChecklistItem(1, idx)
       /\ Direct /\ UNCHANGED ops

SpecLog == Init /\ [][NextLog]_vars

(***************************************************************************)
(* One conversation whose mood tracker is logged to, for as long as its    *)
(* history takes to fill and overflow                                      *)
(***************************************************************************)
NextMood ==
    \/ Reload
    \/ /\ Len(ToolArray(ActiveChat, "mood_tracker")) < 2
       /\ \E j \in MoodTrackerJson : AddOrUpdateToolInActiveChat("mood_tracker", j)
       /\ Direct /\ UNCHANGED ops
    \/ /\ Len(moodTrace[activeChatId]) < MaxMoods
       /\ \E mood \in Moods : LogMoodToTracker(mood)
       /\ Direct /\ UNCHANGED ops

SpecMood == Init /\ [][NextMood]_vars

(***************************************************************************)
(* The turns of the marker build alone: send, reply, tag loop              *)
(***************************************************************************)
NextTags ==
    \/ Reload
    \/ HandleSendMessage("hi") /\ Counted(TurnOps)
    \/ \E ok \in BOOLEAN, r \in Replies : ReplyReturns(ok, r) /\ UNCHANGED ops
    \/ \E j \in AnyToolJson \cup {NullJson} : SynthReturns(j) /\ Counted(TurnOps)

SpecTags == Init /\ [][NextTags]_vars

(***************************************************************************)
(* One conversation whose memories grow and are retrieved from             *)
(***************************************************************************)
NextMemory ==
    \/ Reload
    \/ /\ \E m \in MemoryObjects : AddMemoryToActiveChat(m)
       /\ Direct /\ Counted(MemOps)
    \/ /\ \E q \in GetEmbedding, topK \in 0..MaxTopK :
              FindRelevantMemories(q, topK)
       /\ Direct /\ UNCHANGED ops

SpecMemory == Init /\ [][NextMemory]_vars

(***************************************************************************)
(* Retrieval over memories of which some were stored without an embedding  *)
(***************************************************************************)
\* the objects handed to addMemoryToActiveChat: two with an embedding, of
\* opposite directions, and one without
RetrieveInputs ==
    {m \in MemoryObjects : m.text \in {"a", "c", "d"}} \cup {UnembeddedMemory}

NextRetrieve ==
    \/ Reload
    \/ /\ \E m \in RetrieveInputs : AddMemoryToActiveChat(m)
       /\ Direct /\ Counted(MemOps)
    \/ /\ \E q \in GetEmbedding, topK \in 0..MaxTopK :
              FindRelevantMemories(q, topK)
       /\ Direct /\ UNCHANGED ops

SpecRetrieve == Init /\ [][NextRetrieve]_vars

(***************************************************************************)
(* The similarity of two vectors, for every pair of arguments              *)
(***************************************************************************)
NextCosine ==
    \/ Reload
    \/ /\ \E vecA, vecB \in CosineArguments : CosineSimilarityCall(vecA, vecB)
       /\ Direct /\ UNCHANGED ops

SpecCosine == Init /\ [][NextCosine]_vars

(***************************************************************************)
(* The turns of the router build alone: send, decision, follow-up reply    *)
(***************************************************************************)
\* the decisions of a turn: every tool, each with one payload or with none
TurnDecisions ==
    {[tool |-> "chat"], [tool |-> "search"]}
    \cup {[tool |-> j.type, content |-> j] : j \in SomeToolJson}
    \cup {[tool |-> k, content |-> NullJson] : k \in {"checklist", "mood_tracker"}}

NextTurn ==
    \/ Reload
    \/ HandleSendMessage("hi") /\ Counted(MaxTurns)
    \/ \E d \in TurnDecisions : RouterReturns(d) /\ UNCHANGED ops
    \/ \E ok \in BOOLEAN : FollowUpReturns(ok) /\ UNCHANGED ops

SpecTurn == InitRouter /\ [][NextTurn]_vars

(***************************************************************************)
(* The turns of the router build when the router model applies the rules   *)
(* of its prompt in their order of priority                                *)
(***************************************************************************)
Panic == "I can't breathe, I'm panicking"

Sad == "I feel sad"

Utterances == {"hi", Sad, Panic}

\* the numbered rules of routerPrompt whose condition a message meets: rule 1
\* is the keywords of high distress, rule 7 the statement of a strong emotion
RulesMet(message) ==
    CASE message = Panic -> {1, 7}
      [] message = Sad -> {7}
      [] OTHER -> {}

\* the response of a router model that follows routerPrompt: the format of
\* the first rule that applies, CHAT when none does
RuleRouter(message) ==
    IF 1 \in RulesMet(message) THEN <<"BREATHING_EXERCISE">>
    ELSE IF 7 \in RulesMet(message) THEN <<"MOOD_TRACKER">>
    ELSE <<"CHAT">>

\* userPrompt of decideAndExecuteTool: the message handleSendMessage stored
\* last with the role user
UserPrompt(c, a) ==
    LET history == c[a].history
        sent == {i \in 1..Len(history) : history[i].role = "user"}
    IN  IF sent = {} THEN ""
        ELSE history[CHOOSE i \in sent : \A j \in sent : j <= i].content.text

NextRules ==
    \/ Reload
    \/ \E message \in Utterances : HandleSendMessage(message) /\ Counted(TurnOps)
    \/ /\ \E d \in Decided(RuleRouter(UserPrompt(chats, activeChatId))) :
              RouterReturns(d)
       /\ UNCHANGED ops
    \/ \E ok \in BOOLEAN : FollowUpReturns(ok) /\ UNCHANGED ops

SpecRules == InitRouter /\ [][NextRules]_vars

(***************************************************************************)
(* The plain turns of the router build with the memory extractions they    *)
(* start                                                                   *)
(***************************************************************************)
NextExtract ==
    \/ Reload
    \/ HandleSendMessage("hi") /\ Counted(MaxTurns)
    \/ RouterReturns([tool |-> "chat"]) /\ UNCHANGED ops
    \/ \E ok \in BOOLEAN : FollowUpReturns(ok) /\ UNCHANGED ops
    \/ \E i \in 1..MaxTurns + 1, response \in ExtractorResponses :
          ExtractorReplies(i, response)
    \/ \E i \in 1..MaxTurns + 1, embedding \in FactEmbeddings :
          EmbeddingReturns(i, embedding)

SpecExtract == InitRouter /\ [][NextExtract]_vars

(***************************************************************************)
(* The turns of the router build while conversations are created, selected *)
(* and deleted between the steps of a turn                                 *)
(***************************************************************************)
SwitchDecisions ==
    {[tool |-> "chat"]}
    \cup {[tool |-> j.type, content |-> j] : j \in ToolJson("breathing_exercise")}

NextSwitch ==
    \/ Tick /\ Direct /\ UNCHANGED ops
    \/ CreateNewChat /\ Direct /\ UNCHANGED ops
    \/ \E id \in 1..MaxClock : SetActiveChat(id) /\ Direct /\ UNCHANGED ops
    \/ \E id \in 1..MaxClock : DeleteChat(id) /\ Direct /\ UNCHANGED ops
    \/ HandleSendMessage("hi") /\ Counted(MaxTurns)
    \/ \E d \in SwitchDecisions : RouterReturns(d) /\ UNCHANGED ops
    \/ \E ok \in BOOLEAN : FollowUpReturns(ok) /\ UNCHANGED ops

SpecSwitch == InitRouter /\ [][NextSwitch]_vars

(***************************************************************************)
(* The turns of the router build whose decision is a checklist, an item    *)
(* for the checklist or more items                                         *)
(***************************************************************************)
\* the payloads of GENERATE_MORE_ITEMS: null, an empty array or one item
NewItemsJson == {NullJson, [items |-> <<>>], [items |-> <<[text |-> "c", done |-> FALSE]>>]}

\* what decideAndExecuteTool resolves to: generate_more_items only under
\* `if (checklist)`, the checklist of the active conversation being there
NoteDecisions ==
    {[tool |-> "chat"], [tool |-> "add_to_checklist", itemText |-> "b"]}
    \cup {[tool |-> "checklist", content |-> j] :
            j \in {[type |-> "checklist", id |-> 1, items |-> Items(1)], NullJson}}
    \cup (IF Checklists # <<>> /\ Checklists[Len(Checklists)] # NullJson
          THEN {[tool |-> "generate_more_items", newItems |-> n] : n \in NewItemsJson}
          ELSE {})

NextNotes ==
    \/ Reload
    \/ HandleSendMessage("hi") /\ Counted(MaxTurns)
    \/ \E d \in NoteDecisions : RouterReturns(d) /\ UNCHANGED ops
    \/ \E ok \in BOOLEAN : FollowUpReturns(ok) /\ UNCHANGED ops

SpecNotes == InitRouter /\ [][NextNotes]_vars

(***************************************************************************)
(* Several conversations under every mutator of the active conversation    *)
(***************************************************************************)
NextFrame ==
    \/ Tick /\ Direct /\ UNCHANGED ops
    \/ CreateNewChat /\ Direct /\ UNCHANGED ops
    \/ \E id \in 1..MaxClock : SetActiveChat(id) /\ Direct /\ UNCHANGED ops
    \/ \E id \in 1..MaxClock : DeleteChat(id) /\ Direct /\ UNCHANGED ops
    \/ /\ AddMessageToActiveChat("user", TextContent("hi"))
       /\ Direct /\ Counted(FrameOps)
    \/ /\ \E j \in {t \in SomeToolJson : t.type \in {"checklist", "mood_tracker"}} :
              AddOrUpdateToolInActiveChat(j.type, j)
       /\ Direct /\ Counted(FrameOps)
    \/ /\ CompleteAndRemoveChecklistItem(1, 0)
       /\ Direct /\ Counted(FrameOps)
    \/ LogMoodToTracker("Happy") /\ Direct /\ Counted(FrameOps)
    \/ /\ \E itemsToAdd \in {TextContent("b"), [items |-> Items(1)]} :
              AddItemToActiveChecklist(itemsToAdd)
       /\ Direct /\ Counted(FrameOps)
    \/ /\ AddMemoryToActiveChat([text |-> "a", embedding |-> <<1, 0>>])
       /\ Direct /\ Counted(FrameOps)

SpecFrame == Init /\ [][NextFrame]_vars

(***************************************************************************)
(* The memory extractions of the router build while another conversation   *)
(* is created or made active                                               *)
(***************************************************************************)
NextOwner ==
    \/ Tick /\ Direct /\ UNCHANGED ops
    \/ CreateNewChat /\ Direct /\ UNCHANGED ops
    \/ \E id \in 1..MaxClock : SetActiveChat(id) /\ Direct /\ UNCHANGED ops
    \/ HandleSendMessage("hi") /\ Counted(OwnerTurns)
    \/ RouterReturns([tool |-> "chat"]) /\ UNCHANGED ops
    \/ \E ok \in BOOLEAN : FollowUpReturns(ok) /\ UNCHANGED ops
    \/ \E i \in 1..OwnerTurns, response \in ExtractorResponses :
           ExtractorReplies(i, response)
    \/ \E i \in 1..OwnerTurns, embedding \in FactEmbeddings :
           EmbeddingReturns(i, embedding)

SpecOwner == InitRouter /\ [][NextOwner]_vars

(***************************************************************************)
(* The breathing exercises of one conversation: two exercises in the       *)
(* toolbox, their start buttons and their timers                           *)
(***************************************************************************)
NextBreath ==
    \/ /\ \E j \in BreathingJson :
              /\ j.id \notin BreathingIds
              /\ AddOrUpdateToolInActiveChat("breathing_exercise", j)
       /\ Direct /\ UNCHANGED ops
    \/ \E e \in ToolIds : StartBreathing(e) /\ Counted(BreathStarts)
    \/ \E e \in ToolIds : InhaleEnds(e) /\ UNCHANGED ops
    \/ \E e \in ToolIds : HoldEnds(e) /\ UNCHANGED ops
    \/ IntervalFires /\ UNCHANGED ops
    \/ \E ok \in BOOLEAN : FollowUpDone(ok, <<>>) /\ UNCHANGED ops

SpecBreath == Init /\ [][NextBreath]_vars

\* the timers that are set fire, and a reply request resolves
SpecBreathFair ==
    /\ SpecBreath
    /\ \A e \in ToolIds : WF_vars(InhaleEnds(e) /\ UNCHANGED ops)
    /\ \A e \in ToolIds : WF_vars(HoldEnds(e) /\ UNCHANGED ops)
    /\ WF_vars(IntervalFires /\ UNCHANGED ops)
    /\ WF_vars(\E ok \in BOOLEAN : FollowUpDone(ok, <<>>) /\ UNCHANGED ops)

(***************************************************************************)
(* The router's response: decideAndExecuteTool takes the argument of a     *)
(* 'KIND: argument' response out of the response text.  A text is the      *)
(* sequence of its characters.                                             *)
(***************************************************************************)
SEARCH == <<"S", "E", "A", "R", "C", "H", ":">>
CHECKLIST == <<"C", "H", "E", "C", "K", "L", "I", "S", "T", ":">>
ADD_TO_CHECKLIST ==
    <<"A", "D", "D", "_", "T", "O", "_", "C", "H", "E", "C", "K", "L", "I", "S", "T", ":">>
AFFIRMATION_CARD ==
    <<"A", "F", "F", "I", "R", "M", "A", "T", "I", "O", "N", "_", "C", "A", "R", "D", ":">>

\* String.prototype.startsWith
StartsWith(s, p) == Len(s) >= Len(p) /\ SubSeq(s, 1, Len(p)) = p

\* String.prototype.substring(n): the characters from index n (0-based) on
Substring(s, n) == SubSeq(s, n + 1, Len(s))

\* String.prototype.trim
RECURSIVE Trim(_)
Trim(s) ==
    IF s = <<>> THEN s
    ELSE IF Head(s) = " " THEN Trim(Tail(s))
    ELSE IF s[Len(s)] = " " THEN Trim(SubSeq(s, 1, Len(s) - 1))
    ELSE s

\* the branches of decideAndExecuteTool that read an argument, in the
\* order of the code; what the endpoints and the search return is left out
ToolDecision(decision) ==
    IF StartsWith(decision, SEARCH)
    THEN [tool |-> "search", argument |-> Trim(Substring(decision, 8))]
    ELSE IF StartsWith(decision, CHECKLIST)
    THEN [tool |-> "checklist", argument |-> Trim(Substring(decision, 11))]
    ELSE IF StartsWith(decision, ADD_TO_CHECKLIST)
    THEN [tool |-> "add_to_checklist", argument |-> Trim(Substring(decision, 18))]
    ELSE IF StartsWith(decision, AFFIRMATION_CARD)
    THEN [tool |-> "affirmation_card", argument |-> Trim(Substring(decision, 17))]
    ELSE [tool |-> "chat", argument |-> <<>>]

\* the texts of at most MaxArgument characters
Arguments == UNION {[1..n -> {" ", "a", "b"}] : n \in 0..MaxArgument}

\* the router's responses after data.response.trim()
Responses ==
    {Trim(k \o t) : k \in {SEARCH, CHECKLIST, ADD_TO_CHECKLIST, AFFIRMATION_CARD, <<>>},
                    t \in Arguments}

RouterDecides(decision) ==
    /\ last' = Call("decideAndExecuteTool",
                    [decision |-> decision, toolDecision |-> ToolDecision(decision)],
                    FALSE)
    /\ UNCHANGED <<chats, activeChatId, storage, clock, doneTrace, moodTrace, ops>>
    /\ Direct

NextDecision == \E decision \in Responses : RouterDecides(decision)

SpecDecision == InitRouter /\ [][NextDecision]_vars

(***************************************************************************)
(* Properties of the conversation life cycle                               *)
(***************************************************************************)
\* C1: in every reachable state of the store the active id is not null and
\* is the key of a conversation that exists
ActiveIdValid == activeChatId # NULL /\ activeChatId \in DOMAIN chats

\* the only conversation, active, was deleted and a fresh one took its id
DeletedOnlyConversation ==
    /\ last.op = "deleteChat"
    /\ last.was = last.arg
    /\ DOMAIN chats = {last.arg}
    /\ chats[last.arg] = NewChat(last.arg)

\* C2: deleting the active conversation makes the remaining conversation with
\* the greatest creation token active and keeps the others as they are; when
\* none remains, exactly one fresh empty conversation exists and is active
DeleteActiveSelectsMostRecent ==
    [][\A id \in DOMAIN chats :
         (activeChatId = id /\ last'.op = "deleteChat" /\ DeleteChat(id)) =>
            LET rest == DOMAIN chats \ {id}
            IN  IF rest # {}
                THEN /\ activeChatId' \in rest
                     /\ \A y \in rest : y <= activeChatId'
                     /\ DOMAIN chats' = rest
                     /\ \A y \in rest : chats'[y] = chats[y]
                ELSE /\ Cardinality(DOMAIN chats') = 1
                     /\ activeChatId' \in DOMAIN chats'
                     /\ chats'[activeChatId'] = NewChat(activeChatId')]_vars

\* the oldest of three conversations was active and deleted: the newest of
\* the two that remain is active
DeletedActiveOfThree ==
    /\ last.op = "deleteChat"
    /\ last.was = last.arg
    /\ last.arg = 1
    /\ DOMAIN chats = {2, 3}
    /\ activeChatId = 3

(***************************************************************************)
(* Properties of the tool life cycle                                       *)
(***************************************************************************)
IsText(ret) == ret # NullJson /\ ret # Undefined

\* C3: completeChecklistItem applied twice in a row with the same arguments:
\* the second call returns not-found, removes no item and logs no task
SecondCompletionNotFound ==
    [][\A id \in ToolIds, idx \in -1..MaxItems :
         (/\ last.op = "completeAndRemoveChecklistItem"
          /\ last.arg = id /\ last.idx = idx
          /\ IsText(last.ret)
          /\ CompleteAndRemoveChecklistItem(id, idx))
         => /\ last'.ret = NullJson
            /\ ~last'.threw
            /\ chats' = chats]_vars

\* the index given is outside the items of the checklist that toolId resolves
IndexOutside(id, idx) ==
    LET k == FindIndex(Checklists, id)
    IN  /\ k > 0
        /\ "items" \in DOMAIN Checklists[k]
        /\ (idx < 0 \/ idx >= Len(Checklists[k].items))

\* C4: completeChecklistItem with a toolId that matches no checklist of the
\* active conversation, or with an index outside the items of the resolved
\* checklist, returns not-found without throwing and changes neither the
\* conversations nor the persisted state
NotFoundIsNoOp ==
    [][\A id \in ToolIds, idx \in -1..MaxItems :
         (/\ FindIndex(Checklists, id) = 0 \/ IndexOutside(id, idx)
          /\ CompleteAndRemoveChecklistItem(id, idx))
         => /\ last'.ret = NullJson
            /\ ~last'.threw
            /\ chats' = chats
            /\ storage' = storage]_vars

\* C6: when completeChecklistItem removes the last remaining item of a
\* checklist, that checklist leaves the array and every other checklist stays,
\* in its original order
LastItemRemovesChecklist ==
    [][\A id \in ToolIds, idx \in -1..MaxItems :
         LET k == FindIndex(Checklists, id)
         IN  (/\ last'.op = "completeAndRemoveChecklistItem"
              /\ last'.arg = id /\ last'.idx = idx
              /\ k > 0
              /\ "items" \in DOMAIN Checklists[k]
              /\ Len(Checklists[k].items) = 1
              /\ CompleteAndRemoveChecklistItem(id, idx)
              /\ IsText(last'.ret))
             => LET after == ToolArray(chats'[activeChatId], "checklist")
                IN  /\ Len(after) = Len(Checklists) - 1
                    /\ \A i \in 1..Len(after) :
                         after[i] = IF i < k THEN Checklists[i] ELSE Checklists[i + 1]]_vars

\* the middle one of three checklists lost its last item: the first and the
\* third are left, in that order
MiddleChecklistRemoved ==
    /\ last.op = "completeAndRemoveChecklistItem"
    /\ IsText(last.ret)
    /\ last.arg = 2
    /\ Len(Checklists) = 2
    /\ Checklists[1].id = 1 /\ Len(Checklists[1].items) = 1
    /\ Checklists[2].id = 1 /\ Len(Checklists[2].items) = 2
    /\ Len(doneTrace[activeChatId]) = 1

\* C9: addTool appends the instance at the end of the sequence of its kind;
\* every instance stored before, of that kind and of every other kind, is
\* still there, unchanged and in the same order
AddToolAppends ==
    [][\A j \in ToolInputs :
         (/\ last'.op = "addOrUpdateToolInActiveChat"
          /\ AddOrUpdateToolInActiveChat(j.type, j))
         => LET old == ActiveChat.tools
                new == chats'[activeChatId].tools
                before == ToolArray(ActiveChat, j.type)
            IN  /\ DOMAIN new = DOMAIN old \cup {j.type}
                /\ Len(new[j.type]) = Len(before) + 1
                /\ new[j.type][Len(before) + 1] = j
                /\ \A i \in 1..Len(before) : new[j.type][i] = before[i]
                /\ \A k \in DOMAIN old \ {j.type} : new[k] = old[k]]_vars

\* a second checklist was added after a first one and a tool of another kind
SecondToolOfAKind ==
    /\ last.op = "addOrUpdateToolInActiveChat"
    /\ Len(Checklists) = 2
    /\ Checklists[1] # Checklists[2]
    /\ "mood_tracker" \in DOMAIN ActiveChat.tools

(***************************************************************************)
(* Properties of the bounded logs                                          *)
(***************************************************************************)
\* the last n entries of s, all of s when it has fewer
LastN(s, n) == SubSeq(s, Max(1, Len(s) - n + 1), Len(s))

\* C5: the log of completed tasks of every conversation never has more than
\* 20 entries, and it is the (up to) 20 most recently completed item texts in
\* the order of completion: the oldest is evicted first
CompletedTasksBounded ==
    \A id \in DOMAIN chats :
        /\ Len(chats[id].completed_tasks) <= 20
        /\ chats[id].completed_tasks = LastN(doneTrace[id], 20)

\* the 21st completion evicted the first text, which differs from the second
FirstCompletionEvicted ==
    /\ last.op = "completeAndRemoveChecklistItem"
    /\ IsText(last.ret)
    /\ Len(doneTrace[activeChatId]) = 21
    /\ Len(ActiveChat.completed_tasks) = 20
    /\ doneTrace[activeChatId][1] # doneTrace[activeChatId][2]
    /\ ActiveChat.completed_tasks[1] = doneTrace[activeChatId][2]

\* the trackers of a conversation that carry a history
Histories(chat) ==
    {t.history : t \in {u \in {ToolArray(chat, "mood_tracker")[i] :
                                  i \in 1..Len(ToolArray(chat, "mood_tracker"))} :
                           u # NullJson /\ "history" \in DOMAIN u}}

Range(s) == {s[i] : i \in 1..Len(s)}

\* C7: in every reachable state no checklist stored in any conversation has
\* zero items, whether it came from a synthesized payload or lost its items
\* to completions
NoEmptyChecklist ==
    \A id \in DOMAIN chats :
        \A list \in Range(ToolArray(chats[id], "checklist")) :
            (list # NullJson /\ "items" \in DOMAIN list) => Len(list.items) > 0

\* C10: when the synthesis of a tool fails (the endpoint fails or answers text
\* that is not JSON), the conversations of the caller are unchanged: no tool,
\* no null entry and no message bearing a tool is added or replaced
FailedSynthesisChangesNothing ==
    [][\A d \in ToolDecisions :
         (/\ "content" \in DOMAIN d
          /\ d.content = NullJson
          /\ RouterReturns(d))
         => chats' = chats /\ storage' = storage]_vars

(***************************************************************************)
(* Properties of the stored tools and of persistence                       *)
(***************************************************************************)
\* the fields the structure of a kind requires, as the prompts of
\* createToolByType spell it
SchemaFields(kind) ==
    CASE kind = "checklist" -> {"type", "id", "items"}
      [] kind = "mood_tracker" -> {"type", "id", "history"}
      [] kind = "breathing_exercise" -> {"type", "id", "cycle"}
      [] kind = "affirmation_card" -> {"type", "id", "text"}
      [] OTHER -> {}

MatchesSchema(kind, tool) ==
    /\ tool # NullJson
    /\ SchemaFields(kind) \subseteq DOMAIN tool
    /\ tool.type = kind

\* C11: a synthesis response that does not match the schema of the requested
\* kind creates no tool, so every tool stored in any conversation matches the
\* schema of the kind it is stored under
StoredToolsMatchSchema ==
    \A id \in DOMAIN chats : \A k \in DOMAIN chats[id].tools :
        \A tool \in Range(chats[id].tools[k]) : MatchesSchema(k, tool)

\* C12: the ids of the tools stored in one conversation are pairwise
\* distinct (an id carries the prefix of its kind, so two tools of different
\* kinds differ), so that a toolId resolves at most one checklist
ToolIdsDistinct ==
    \A id \in DOMAIN chats : \A k \in DOMAIN chats[id].tools :
        LET arr == chats[id].tools[k]
        IN  \A i, j \in 1..Len(arr) :
                (/\ i # j
                 /\ arr[i] # NullJson /\ arr[j] # NullJson
                 /\ "id" \in DOMAIN arr[i] /\ "id" \in DOMAIN arr[j])
                => arr[i].id # arr[j].id

\* C13: whenever a mutating operation of the store returns, the persisted
\* document is the full state in memory: the conversations and the active id
PersistedIsMemory ==
    ~last.threw => storage = State(chats, activeChatId)

ScoreOf(queryEmbedding, text) ==
    LET m == CHOOSE o \in MemoryObjects : o.text = text
    IN  CosineSimilarity(queryEmbedding.vector, m.embedding)

\* C20: findRelevantMemories returns at most topK texts, each the text of a
\* memory of the active conversation, in order of non-increasing similarity
\* to the query; with no memory stored it returns the empty array and does
\* not throw
RetrieveBounded ==
    last.op = "findRelevantMemories" =>
        LET texts == last.ret.texts
            memories == ActiveChat.memories
        IN  /\ ~last.threw
            /\ Len(texts) <= last.idx
            /\ \A i \in 1..Len(texts) :
                  \E j \in 1..Len(memories) : memories[j].text = texts[i]
            /\ \A i, j \in 1..Len(texts) :
                  i < j => ~Greater(ScoreOf(last.arg, texts[j]),
                                    ScoreOf(last.arg, texts[i]))
            /\ memories = <<>> => texts = <<>>

\* two of three memories were returned, the closest to the query first,
\* though it was stored last
ClosestOfThreeFirst ==
    /\ last.op = "findRelevantMemories"
    /\ last.idx = 2
    /\ Len(ActiveChat.memories) = 3
    /\ last.ret.texts = <<"a", "d">>
    /\ ActiveChat.memories[3].text = "a"
    /\ ActiveChat.memories[1].text = "c"

\* the positions of the memories that have an embedding
Embedded(memories) == {i \in 1..Len(memories) : "embedding" \in DOMAIN memories[i]}

\* C21: in a retrieval a memory without an embedding comes after every
\* memory that has one: in the texts returned none stands before the text of
\* a memory with an embedding, it is returned only when every memory with an
\* embedding is, and it is returned when fewer than topK memories have an
\* embedding
UnembeddedRankedLast ==
    (last.op = "findRelevantMemories" /\ last.arg # NullJson) =>
        LET texts == last.ret.texts
            memories == ActiveChat.memories
            unembedded == {i \in 1..Len(texts) : texts[i] = UnembeddedMemory.text}
        IN  /\ \A i \in unembedded : \A j \in 1..Len(texts) :
                  i < j => j \in unembedded
            /\ unembedded # {} =>
                  Len(texts) - Cardinality(unembedded) = Cardinality(Embedded(memories))
            /\ (/\ Cardinality(Embedded(memories)) < last.idx
                 /\ Cardinality(Embedded(memories)) < Len(memories))
               => unembedded # {}

(***************************************************************************)
(* Properties of the similarity                                            *)
(***************************************************************************)
\* C28: the similarity is symmetric: what a call returned for two arguments
\* is what the function gives for the same two in the other order
CosineSymmetric ==
    last.op = "cosineSimilarity" =>
        last.ret = CosineSimilarityResult(last.arg.vecB, last.arg.vecA)

\* two vectors of different magnitudes that are not orthogonal were compared
UnequalMagnitudesCompared ==
    /\ last.op = "cosineSimilarity"
    /\ last.arg = [vecA |-> [vector |-> <<1, 1>>], vecB |-> [vector |-> <<2, 0>>]]
    /\ last.ret = [s |-> 4, n |-> 8]

\* an argument is absent or is a vector of magnitude 0
AbsentOrZero(vec) == vec = NullJson \/ Dot(vec.vector, vec.vector) = 0

\* C29: the similarity is 0 whenever one of the two arguments is absent or
\* has magnitude 0, whatever the other argument is
CosineZeroConvention ==
    (/\ last.op = "cosineSimilarity"
     /\ AbsentOrZero(last.arg.vecA) \/ AbsentOrZero(last.arg.vecB))
    => last.ret = [s |-> 0, n |-> 1]

\* a vector of magnitude 0 was compared with one of another magnitude, which
\* came second
ZeroVectorCompared ==
    /\ last.op = "cosineSimilarity"
    /\ last.arg = [vecA |-> [vector |-> <<0, 0>>], vecB |-> [vector |-> <<1, 2>>]]
    /\ last.ret = [s |-> 0, n |-> 1]

(***************************************************************************)
(* Properties of the memory extraction                                     *)
(***************************************************************************)
\* the reply of the agent that ends an exchange
AgentReply == [role |-> "ai", content |-> TextContent("reply")]

\* C22: an extraction starts at most once per exchange, in the step that
\* appends the reply of the agent and persists it, and that step returns the
\* reply with the extraction still at its request; a reply request that
\* failed starts none
ExtractionOncePerExchange ==
    [][/\ Len(extraction') <= Len(extraction) + 1
       /\ Len(extraction') > Len(extraction) =>
             /\ turn.pc = "followup" /\ turn' = Idle
             /\ chats'[activeChatId].history = Append(ActiveChat.history, AgentReply)
             /\ storage' = State(chats', activeChatId)
             /\ extraction' = Append(extraction, Extracting)
       /\ (/\ turn.pc = "followup" /\ turn' = Idle
           /\ last'.op # "constructor"
           /\ chats'[activeChatId].history = ActiveChat.history)
          => extraction' = extraction]_vars

\* two exchanges were completed, the second reply is stored and returned, and
\* neither extraction has got its answer yet
SecondReplyBeforeExtractions ==
    /\ turn = Idle
    /\ Len(ActiveChat.history) = 4
    /\ ActiveChat.history[4] = AgentReply
    /\ storage = State(chats, activeChatId)
    /\ extraction = <<Extracting, Extracting>>

\* the facts the extractions in flight have still to embed
RECURSIVE FactsLeft(_)
FactsLeft(tasks) ==
    IF tasks = <<>> THEN 0 ELSE Len(Head(tasks).facts) + FactsLeft(Tail(tasks))

\* C23: in an extraction a fact whose embedding request failed is dropped and
\* not asked for again, while the extraction goes on with its other facts;
\* the sentinel and a failed summarizer request end the extraction with
\* nothing stored; a memory is stored only as one fact of an extraction with
\* the embedding it got, so that every memory the extractor wrote has one
FactsEmbeddedIndependently ==
    [][LET memories == ActiveChat.memories
           after == chats'[activeChatId].memories
       IN  /\ (last'.op = "getEmbedding" /\ extraction' # extraction) =>
                 /\ chats' = chats /\ storage' = storage
                 /\ \E i \in 1..Len(extraction) :
                       /\ extraction[i].pc = "embed"
                       /\ extraction' = Continued(extraction, i,
                                             SkipBlank(Tail(extraction[i].facts)))
                 /\ FactsLeft(extraction') < FactsLeft(extraction)
           /\ (/\ last'.op = "extractAndSaveMemoriesForActiveChat"
                /\ extraction' # extraction
                /\ last'.ret \in {NullJson, Sentinel}) =>
                 /\ chats' = chats /\ storage' = storage
                 /\ Len(extraction') = Len(extraction) - 1
                 /\ FactsLeft(extraction') = FactsLeft(extraction)
           /\ (last'.op # "constructor" /\ after # memories) =>
                 \E i \in 1..Len(extraction) :
                    /\ extraction[i].pc = "embed"
                    /\ after = Append(memories,
                           [text |-> Head(extraction[i].facts),
                            embedding |-> EmbeddingOf(Head(extraction[i].facts)).vector])
                    /\ extraction' = Continued(extraction, i,
                                          SkipBlank(Tail(extraction[i].facts)))
           /\ \A i \in 1..Len(after) : "embedding" \in DOMAIN after[i]]_vars

\* an extraction of two facts has ended: the embedding of the first failed,
\* the second is stored
SecondFactStoredAlone ==
    /\ extraction = <<>>
    /\ last.op = "addMemoryToActiveChat"
    /\ Len(ActiveChat.memories) = 1
    /\ ActiveChat.memories[1].text = "b"
    /\ "embedding" \in DOMAIN ActiveChat.memories[1]
    /\ storage = State(chats, activeChatId)

(***************************************************************************)
(* Properties of the turn                                                  *)
(***************************************************************************)
\* C15: decideAndExecuteTool never fails the exchange: it raises no error
\* whatever the history holds, and it resolves to the chat decision for a
\* failed request and for a response in none of the formats
DecideNeverFails ==
    /\ ~(last.op = "decideAndExecuteTool" /\ last.threw)
    /\ \A response \in RouterResponses :
          (\A i \in 1..Len(response) : response[i] = "OTHER")
          => Decided(response) = {[tool |-> "chat"]}

\* C16: when the request for a reply fails, the user gets the apology and the
\* store gains nothing: no message of the agent, no tool, no memory
FailedReplyAddsNothing ==
    [][(/\ turn.pc = "reply"
        /\ \E r \in Replies : ReplyReturns(FALSE, r))
       => chats' = chats /\ storage' = storage]_vars

\* the effect of a directive is there after the turn: a tool more of its
\* kind, or the tracker shown in the history
EffectApplied(directive) ==
    LET tool == ToolOf(directive)
    IN  CASE tool \in {"checklist", "breathing_exercise", "affirmation_card"} ->
                Len(ToolArray(chats'[activeChatId], tool)) > Len(ToolArray(ActiveChat, tool))
          [] tool = "mood_tracker" ->
                Len(chats'[activeChatId].history) > Len(ActiveChat.history)
          [] OTHER -> TRUE

\* C17: when the response of the router is a sequence of n valid directives
\* with separators, the effect of each of them is applied in the turn
CompoundApplied ==
    [][\A response \in RouterResponses :
         (/\ turn.pc = "route"
          /\ Len(response) > 1
          /\ \A i \in 1..Len(response) : response[i] # "OTHER"
          /\ \E d \in Decided(response) : RouterReturns(d))
         => \A i \in 1..Len(response) : EffectApplied(response[i])]_vars

\* C18: in the marker build no message of the agent that is stored in a
\* history carries a tool marker
NoMarkerStored ==
    \A id \in DOMAIN chats : \A m \in Range(chats[id].history) :
        m.role = "ai" => "markers" \notin DOMAIN m.content

\* tags is what is left of reply from its first tag of a known kind on
RestOf(reply, tags) ==
    /\ \E n \in 0..Len(reply) :
          /\ tags = SubSeq(reply, n + 1, Len(reply))
          /\ \A i \in 1..n : reply[i] \notin ToolKinds
    /\ tags # <<>> => Head(tags) \in ToolKinds

\* C19: in the marker build the tags of a reply are synthesized one by one in
\* the order of the reply; a synthesis that succeeds appends one instance
\* under the kind of its tag, a failed one and a tag of an unknown kind add
\* nothing, no key included, and a reply without tags leaves the tools as they
\* are and is stored as a reply
MarkersSynthesizedInOrder ==
    [][/\ \A ok \in BOOLEAN, r \in Replies :
            (turn.pc = "reply" /\ ReplyReturns(ok, r))
            => /\ chats'[activeChatId].tools = ActiveChat.tools
               /\ RestOf(r, turn'.tags)
               /\ turn'.tags = <<>> =>
                    /\ turn' = Idle
                    /\ Len(chats'[activeChatId].history) = Len(ActiveChat.history) + 1
       /\ \A j \in AnyToolJson \cup {NullJson} :
            (turn.pc = "synth" /\ SynthReturns(j))
            => LET kind == Head(turn.tags)
                   old == ActiveChat.tools
                   new == chats'[activeChatId].tools
               IN  /\ kind \in ToolKinds
                   /\ RestOf(Tail(turn.tags), turn'.tags)
                   /\ IF j = NullJson THEN new = old
                      ELSE /\ DOMAIN new = DOMAIN old \cup {kind}
                           /\ new[kind] = Append(ToolArray(ActiveChat, kind), j)
                           /\ \A k \in DOMAIN old \ {kind} : new[k] = old[k]]_vars

\* a reply with two tags of one kind ended its turn: two checklists are stored
\* in the order they were synthesized
TwoTagsSynthesized ==
    /\ turn = Idle
    /\ last.op = "addMessageToActiveChat"
    /\ Len(ActiveChat.history) = 2
    /\ Len(Checklists) = 2
    /\ Checklists[1].id = 2 /\ Checklists[2].id = 1

(***************************************************************************)
(* Properties of the prompt and of the order of the steps                  *)
(***************************************************************************)
\* C24: the prompt of a reply request made with a follow-up descriptor holds
\* exactly one system note, and the prompt of a request made without one
\* holds none
OneSystemNotePerFollowUp ==
    prompt.notes = IF prompt.followUp \in {"init", "none"} THEN 0 ELSE 1

\* the message of the user that opens a turn
UserMessage == [role |-> "user", content |-> TextContent("hi")]

OnePipelineInFlight == (IF turn = Idle THEN 0 ELSE 1) + pending <= 1

\* s is a prefix of t
IsPrefix(s, t) == Len(s) <= Len(t) /\ SubSeq(t, 1, Len(s)) = s

\* C27: the history of a conversation only grows at its end: over every step
\* of the store the history of a conversation that exists before and after
\* the step is a prefix of what it becomes
HistoryAppendOnly ==
    [][\A id \in DOMAIN chats \cap DOMAIN chats' :
          IsPrefix(chats[id].history, chats'[id].history)]_vars

(***************************************************************************)
(* Properties of the routing                                               *)
(***************************************************************************)
\* a step of handleSendMessage that stored the message as the user's
Sent(message) ==
    /\ turn.pc = "idle"
    /\ last'.op \in {"decideAndExecuteTool", "addMessageToActiveChat"}
    /\ UserPrompt(chats', activeChatId) = message

\* a step in which decideAndExecuteTool resolved for the message
Routed(message) ==
    /\ turn.pc = "route"
    /\ last'.op # "constructor"
    /\ UserPrompt(chats, activeChatId) = message

\* C30: when the router model follows the rules of its prompt, the panic
\* utterance is given to the router whatever the conversation holds, and the
\* decision that comes back stores a breathing exercise, never a mood tracker
PanicGetsBreathingExercise ==
    [][/\ Sent(Panic) => turn'.pc = "route"
       /\ Routed(Panic) =>
              \E j \in GenerateToolJson("breathing_exercise") :
                  chats' = ToolAdded(chats, activeChatId, "breathing_exercise", j)]_vars

(***************************************************************************)
(* Properties of the conversations taken together                          *)
(***************************************************************************)
\* C31: createNewChat adds a conversation: over every step of createNewChat
\* there is exactly one conversation more and every conversation that
\* existed is as it was, also at a clock reading that is already an id
CreateAddsConversation ==
    [][(last'.op = "createNewChat" /\ clock' = clock) =>
          /\ Cardinality(DOMAIN chats') = Cardinality(DOMAIN chats) + 1
          /\ \A id \in DOMAIN chats :
                 id \in DOMAIN chats' /\ chats'[id] = chats[id]]_vars

\* a step in which the send pipeline went on: decideAndExecuteTool or
\* getOllamaResponse resolved for the turn in flight
TurnStep ==
    /\ turn.pc \in {"route", "followup"}
    /\ turn' # turn
    /\ last'.op # "constructor"

\* C32: what a turn stores goes to the conversation its user message was
\* stored in: a step of the turn changes that conversation and no other,
\* whichever conversation was made active, created or deleted meanwhile
TurnEffectsInOwnConversation ==
    [][TurnStep =>
          \A id \in DOMAIN chats' :
              (id \notin DOMAIN chats \/ chats'[id] # chats[id]) => id = turn.chat]_vars

\* a step in which the extraction at position i stored the fact it is at
MemoryStep(i) ==
    /\ extraction[i].pc = "embed"
    /\ last'.op = "addMemoryToActiveChat"
    /\ extraction' = Continued(extraction, i, SkipBlank(Tail(extraction[i].facts)))

\* C33: the facts of an exchange go to the memories of the conversation of
\* that exchange: a step in which an extraction stores a fact changes the
\* memories of that conversation and of no other, whichever is active
MemoriesPerConversation ==
    [][\A i \in 1..Len(extraction) :
          MemoryStep(i) =>
              \A id \in DOMAIN chats' :
                  (id \notin DOMAIN chats \/ chats'[id].memories # chats[id].memories)
                  => id = extraction[i].chat]_vars

\* the calls that change the active conversation
Mutators ==
    {"addMessageToActiveChat", "addOrUpdateToolInActiveChat", "logMoodToTracker",
     "completeAndRemoveChecklistItem", "addItemToActiveChecklist",
     "addMemoryToActiveChat"}

\* C34: a mutator of the active conversation leaves the active id, the set
\* of conversations and every conversation that is not active as they were;
\* the deletion of a conversation that is not active removes that one only
\* and leaves the active id and the other conversations as they were
OnlyActiveChanged ==
    [][/\ (last'.op \in Mutators /\ ops' # ops) =>
              /\ activeChatId' = activeChatId
              /\ DOMAIN chats' = DOMAIN chats
              /\ \A id \in DOMAIN chats \ {activeChatId} : chats'[id] = chats[id]
       /\ (last'.op = "deleteChat" /\ clock' = clock /\ last'.arg # activeChatId) =>
              /\ activeChatId' = activeChatId
              /\ DOMAIN chats' = DOMAIN chats \ {last'.arg}
              /\ \A id \in DOMAIN chats' : chats'[id] = chats[id]]_vars

\* a conversation that is not active holds a message and a tool while the
\* active one has just been given a memory
MutatedBesideAnother ==
    /\ last.op = "addMemoryToActiveChat"
    /\ chats[activeChatId].memories # <<>>
    /\ \E id \in DOMAIN chats \ {activeChatId} :
           chats[id].history # <<>> \/ chats[id].tools # << >>

(***************************************************************************)
(* Properties of the system notes                                          *)
(***************************************************************************)
\* a tool of some kind was stored by the step: one more entry in the array
\* of the kind, and the entry is a tool
InstanceStored ==
    \E k \in ToolKinds :
        LET old == ToolArray(chats[activeChatId], k)
            new == ToolArray(chats'[activeChatId], k)
        IN  Len(new) = Len(old) + 1 /\ new[Len(new)] # NullJson

\* a checklist of the active conversation has more items after the step
ItemsStored ==
    LET old == ToolArray(chats[activeChatId], "checklist")
        new == ToolArray(chats'[activeChatId], "checklist")
    IN  \E i \in 1..Len(new) :
            /\ i <= Len(old)
            /\ new[i] # NullJson /\ old[i] # NullJson
            /\ "items" \in DOMAIN new[i] /\ "items" \in DOMAIN old[i]
            /\ Len(new[i].items) > Len(old[i].items)

\* C35: a system note about a tool action is in the prompt only when the
\* action changed the store: over the step that assembles the follow-up
\* prompt, the note of a created tool comes with a tool stored by the step
\* and the note of added items with items added to a checklist of the
\* active conversation
NotesFollowChanges ==
    [][(turn.pc = "route" /\ turn'.pc = "followup") =>
          /\ prompt'.followUp = "persistent_tool_created" => InstanceStored
          /\ prompt'.followUp \in {"item_added", "more_items_added"} => ItemsStored]_vars

(***************************************************************************)
(* Properties of the end of a turn                                         *)
(***************************************************************************)
\* C36: no step of handleSendMessage ends in an error that nothing catches:
\* neither the call of the router, nor a store call of the switch, nor the
\* call for the reply throws, whatever the earlier turns left in the history
TurnNeverThrows ==
    ~(/\ last.op \in {"decideAndExecuteTool", "addItemToActiveChecklist",
                      "getOllamaResponse"}
      /\ last.threw)

(***************************************************************************)
(* Properties of the mood log                                              *)
(***************************************************************************)
\* C37: logMoodToTracker writes one entry, the mood with the clock reading,
\* at the end of the history of the first mood tracker of the active
\* conversation, and nothing else in the store differs after it: no other
\* tracker, tool, message, memory or completed task and no other
\* conversation; without a mood tracker the store is as it was
MoodLoggedToFirstTracker ==
    [][last'.op = "logMoodToTracker" =>
          LET a == activeChatId
              old == ToolArray(chats[a], "mood_tracker")
          IN  /\ activeChatId' = a
              /\ IF old = <<>> \/ old[1] = NullJson
                 THEN chats' = chats
                 ELSE LET before == IF "history" \in DOMAIN old[1]
                                    THEN old[1].history ELSE <<>>
                          new == ToolArray(chats'[a], "mood_tracker")
                          after == new[1].history
                      IN  /\ Len(new) = Len(old)
                          /\ "history" \in DOMAIN new[1]
                          /\ Len(after) = Min(Len(before) + 1, MaxMoodHistory)
                          /\ \E mood \in Moods :
                                 after[Len(after)] = [mood |-> mood, timestamp |-> clock]
                          /\ SubSeq(after, 1, Len(after) - 1)
                                = LastN(before, Len(after) - 1)
                          /\ chats' = [chats EXCEPT
                                 ![a].tools["mood_tracker"][1] =
                                     [f \in DOMAIN old[1] \cup {"history"} |->
                                         IF f = "history" THEN after
                                         ELSE old[1][f]]]]_vars

\* a mood was logged while the conversation holds two trackers: the first
\* has it, the second has no entry
FirstOfTwoTrackersLogged ==
    LET trackers == ToolArray(ActiveChat, "mood_tracker")
    IN  /\ last.op = "logMoodToTracker"
        /\ Len(trackers) = 2
        /\ "history" \in DOMAIN trackers[1] /\ Len(trackers[1].history) = 1
        /\ "history" \in DOMAIN trackers[2] /\ trackers[2].history = <<>>

(***************************************************************************)
(* Properties of the breathing exercise                                    *)
(***************************************************************************)
\* C38: every breathing exercise that was started comes to its completion:
\* a start button that a click disabled is enabled again, which the
\* completion does together with the follow-up, also when another exercise
\* is started meanwhile
BreathingCompletes ==
    \A e \in ToolIds : Run(e).disabled ~> ~Run(e).disabled

(***************************************************************************)
(* Properties of the router's response                                     *)
(***************************************************************************)
\* the text that follows the first colon of a text
RECURSIVE AfterColon(_)
AfterColon(s) ==
    IF s = <<>> THEN s
    ELSE IF Head(s) = ":" THEN Tail(s)
    ELSE AfterColon(Tail(s))

\* C39: the argument taken from a router response 'KIND: argument' (the
\* query, the topic, the item text, the theme) is the text that follows the
\* first colon without the whitespace around it, with or without a space
\* after the colon
ArgumentFollowsColon ==
    (last.op = "decideAndExecuteTool" /\ last.ret.toolDecision.tool # "chat")
        => last.ret.toolDecision.argument = Trim(AfterColon(last.ret.decision))
====
